---- MODULE Spec2Model ----
(***************************************************************************)
(* photo-keyword-tagger: the RAW file matcher (file_finder.py), the XMP    *)
(* sidecar helpers and writers (xmp_tagger.py), the keyword requester      *)
(* (keyword_generator.py) and the directory pipeline (pipeline.py), as     *)
(* state machines over a small filesystem.                                 *)
(*                                                                         *)
(* A file name is a sequence of tokens: characters, and extensions such    *)
(* as ".arw" taken as one token (<<"a", ".arw">> is a.arw).  A path is     *)
(* a record [dir, name].  The filesystem is case-sensitive (POSIX).        *)
(***************************************************************************)
EXTENDS Naturals, Sequences, FiniteSets, TLC

VARIABLES
    \* ---- the filesystem and the environment
    jpegDirKind,      \* "missing" | "file" | "dir": what jpeg_dir is on disk
    jpegDirFiles,     \* names of the files directly in jpeg_dir
    rawRootExists,    \* raw_search_path / base_path exists
    rawFiles,         \* paths of the files under the RAW root (any depth)
    xmpFiles,         \* paths of the sidecar files on disk
    xmpSubjects,      \* sidecar path -> the keywords exiftool added to its dc:Subject
    taxonomyExists,   \* taxonomy_path exists
    \* ---- file_finder.py, called on its own
    f_pc,             \* "ready" | "single" (find_raw_file) | "batch" (find_raw_files)
    f_call,           \* the arguments of the call: [jpeg, list, exts]
    f_out,            \* what the call produced: [exc, val, map]
    \* ---- xmp_tagger.py, called on its own
    t_pc,             \* "ready" | "writing" (in batch_add_keywords) | "checking" (in
                      \* ensure_xmp_sidecars) | "returned" | "raised"
    t_call,           \* the call: [fn, path, list, keywords, mapping, exiftool]
    t_out,            \* what the call produced: [exc, named, returncode, output, val]
    t_idx,            \* position of the write loop of batch_add_keywords
    t_with,           \* files_with_xmp of batch_add_keywords / ensure_xmp_sidecars
    t_without,        \* files_without_xmp of ensure_xmp_sidecars
    t_cmds,           \* the subprocess.run calls of the current call: [cmd, rc]
    t_before,         \* xmpSubjects when the current call began
    t_calls,          \* number of calls made
    t_limit,          \* number of calls the caller makes
    \* ---- keyword_generator.py, called on its own
    imageExists,      \* image_path exists
    environ,          \* os.environ.get("GEMINI_API_KEY")
    g_pc,             \* "validate" | "prepare" | "stream" | "returned" | "raised"
    g_call,           \* the arguments: [image, api_key]
    api_key,          \* local api_key once resolved
    mime_type,        \* local mime_type
    g_client,         \* the credential genai.Client was created with
    g_chunks,         \* the chunks received from generate_content_stream
    response_text,    \* local response_text
    g_out,            \* what the call produced: [exc, msg, text, val]
    \* ---- pipeline.py: process_directory and what it calls
    pc,               \* the stage process_directory is in
    extensions,       \* argument extensions (NoneExt = not supplied)
    idx,              \* position of the running loop in its list
    jpeg_files,       \* list of the discovered JPEG paths
    jpeg_to_raw,      \* dict JPEG path -> RAW path
    missing_raw_files,\* list of the JPEGs without a RAW file
    raw_files,        \* list(jpeg_to_raw.values())
    files_with_xmp,   \* first list returned by ensure_xmp_sidecars
    files_without_xmp,\* second list returned by ensure_xmp_sidecars
    raw_to_keywords,  \* dict RAW path -> keywords
    b_files_with_xmp, \* files_with_xmp of batch_add_keywords
    warnings,         \* the warning lines printed so far
    requests,         \* the generate_keywords calls, in order: [image, exc, keywords]
    stages,           \* the stages process_directory has entered, in order
    execLog,          \* the exiftool runs, in order: [xmp, keywords, rc]
    error,            \* the exception process_directory raised: [type, msg]
    result,           \* the mapping process_directory returned
    \* ---- cli.py: the command main
    c_pc,             \* "parse" | "main" | "pipeline" | "exited"
    argv,             \* the command line: [api_key, extensions]
    cli_api_key,      \* parameter api_key of main
    exit_code,        \* <<>> while running, <<n>> once the process has exited
    stdout,           \* the lines written to the output stream
    stderr            \* the lines written to the error stream

fsVars == <<jpegDirKind, jpegDirFiles, rawRootExists, rawFiles, xmpFiles,
            xmpSubjects, taxonomyExists>>
finderVars == <<f_pc, f_call, f_out>>
taggerVars == <<t_pc, t_call, t_out, t_idx, t_with, t_without, t_cmds, t_before,
               t_calls, t_limit>>
genVars == <<imageExists, environ, g_pc, g_call, api_key, mime_type, g_client,
             g_chunks, response_text, g_out>>
pipeVars == <<pc, extensions, idx, jpeg_files, jpeg_to_raw, missing_raw_files,
              raw_files, files_with_xmp, files_without_xmp, raw_to_keywords,
              b_files_with_xmp, warnings, requests, stages, execLog, error,
              result>>
cliVars == <<c_pc, argv, cli_api_key, exit_code, stdout, stderr>>
vars == <<fsVars, finderVars, taggerVars, genVars, pipeVars, cliVars>>

----------------------------------------------------------------------------
(* Bounds of the model                                                     *)

MaxRawFiles == 2     \* files under the RAW root
MaxList == 2         \* length of the list given to find_raw_files
MaxJpegs == 2        \* files in the JPEG directory

----------------------------------------------------------------------------
(* Paths and names                                                         *)

StemChars == {"a", "b", "?"}
RawExts == {".arw", ".dng", ".ARW", ".DNG"}
RawDirs == {"top", "sub"}        \* the root itself and a directory below it

Path(d, n) == [dir |-> d, name |-> n]
NoPath == Path("", <<>>)         \* Python's None where a Path is expected
NoneExt == <<"None">>            \* extensions=None

\* the tokens that begin with a dot: a dot alone and the extensions
DotTokens == {".", ".arw", ".dng", ".ARW", ".DNG", ".xmp",
              ".jpg", ".jpeg", ".JPG", ".JPEG", ".txt", ".png", ".PNG", ".xyz"}

\* name.rfind("."): the position of the last token that begins with a dot
\* (0 when there is none)
RECURSIVE LastDot(_, _)
LastDot(name, i) ==
    IF i = 0 THEN 0
    ELSE IF name[i] \in DotTokens THEN i
    ELSE LastDot(name, i - 1)

\* PurePath.suffix / PurePath.stem: the name is split at its last dot when
\* that dot is neither its first nor its last character
HasSuffix(name) ==
    LET i == LastDot(name, Len(name))
    IN  i > 1 /\ ~(i = Len(name) /\ name[i] = ".")
suffix(p) ==
    IF HasSuffix(p.name)
    THEN SubSeq(p.name, LastDot(p.name, Len(p.name)), Len(p.name))
    ELSE <<>>
stem(p) ==
    IF HasSuffix(p.name)
    THEN SubSeq(p.name, 1, LastDot(p.name, Len(p.name)) - 1)
    ELSE p.name

RawUniverse == {Path(d, <<c, e>>) : d \in RawDirs, c \in StemChars, e \in RawExts}
FinderJpegs == {Path("jpegs", <<c, ".jpg">>) : c \in StemChars}

\* extensions default of find_raw_file
DefaultExtensions == <<".arw", ".dng", ".ARW", ".DNG">>

\* fnmatch of one path component: "*" matches any run of tokens, "?" any
\* one character, every other token itself (pathlib compiles the pattern
\* of Path.glob with fnmatch.translate; matching is case-sensitive)
RECURSIVE GlobMatch(_, _)
GlobMatch(pat, name) ==
    IF pat = <<>> THEN name = <<>>
    ELSE IF Head(pat) = "*"
         THEN \E k \in 0..Len(name) : GlobMatch(Tail(pat), SubSeq(name, k + 1, Len(name)))
    ELSE IF name = <<>> THEN FALSE
    ELSE IF Head(pat) = "?"
         THEN Head(name) \in StemChars /\ GlobMatch(Tail(pat), Tail(name))
    ELSE Head(pat) = Head(name) /\ GlobMatch(Tail(pat), Tail(name))

\* base_path.glob("**/" + pattern): the files at any depth whose name matches
glob(files, pattern) == {f \in files : GlobMatch(pattern, f.name)}

----------------------------------------------------------------------------
(* file_finder.py                                                          *)

Return(v) == [exc |-> "", val |-> v]
Raise(e) == [exc |-> e, val |-> NoPath]

\* the extensions searched all at once: any match of any extension
SearchFrom_AnyExtension(jpeg_stem, files, exts, i) ==
    LET all == UNION {glob(files, jpeg_stem \o <<exts[k]>>) : k \in DOMAIN exts}
    IN  IF all = {} THEN {Return(NoPath)} ELSE {Return(m) : m \in all}

\* the loop "for ext in extensions" from its i-th element on; matches[0] is
\* the first path the directory scan yields, any of the matches
RECURSIVE SearchFrom(_, _, _, _)
SearchFrom(jpeg_stem, files, exts, i) ==
    IF i > Len(exts) THEN {Return(NoPath)}
    ELSE LET matches == glob(files, jpeg_stem \o <<exts[i]>>)
         IN  IF matches # {} THEN {Return(m) : m \in matches}
             ELSE SearchFrom(jpeg_stem, files, exts, i + 1)

\* find_raw_file without the check of base_path
find_raw_file_NoRootCheck(jpeg_path, base_exists, files, exts0) ==
    LET exts == IF exts0 = NoneExt THEN DefaultExtensions ELSE exts0
    IN  SearchFrom(stem(jpeg_path), files, exts, 1)

\* the set of outcomes find_raw_file can have
find_raw_file(jpeg_path, base_exists, files, exts0) ==
    LET exts == IF exts0 = NoneExt THEN DefaultExtensions ELSE exts0
    IN  IF ~base_exists THEN {Raise("FileNotFoundError")}
        ELSE SearchFrom(stem(jpeg_path), files, exts, 1)

Range(q) == {q[j] : j \in DOMAIN q}

\* a Python dict, in insertion order: a sequence of [k, v] without repeated k
DictKeys(d) == {d[i].k : i \in DOMAIN d}
DictGet(d, key) == d[CHOOSE j \in DOMAIN d : d[j].k = key].v
DictSet(d, key, value) ==
    IF key \in DictKeys(d)
    THEN [i \in DOMAIN d |-> IF d[i].k = key THEN [k |-> key, v |-> value] ELSE d[i]]
    ELSE Append(d, [k |-> key, v |-> value])

\* the loop of find_raw_files from the i-th input on, results so far given
RECURSIVE FindAll(_, _, _, _, _, _)
FindAll(jpeg_paths, i, results, base_exists, files, exts0) ==
    IF i > Len(jpeg_paths) THEN {[exc |-> "", map |-> results]}
    ELSE UNION { IF o.exc # "" THEN {[exc |-> o.exc, map |-> <<>>]}
                 ELSE FindAll(jpeg_paths, i + 1, DictSet(results, jpeg_paths[i], o.val),
                              base_exists, files, exts0)
                 : o \in find_raw_file(jpeg_paths[i], base_exists, files, exts0) }

\* find_raw_files leaving out the inputs that have no match
find_raw_files_DropsUnmatched(jpeg_paths, base_exists, files, exts0) ==
    { [exc |-> o.exc, map |-> SelectSeq(o.map, LAMBDA e : e.v # NoPath)]
      : o \in FindAll(jpeg_paths, 1, <<>>, base_exists, files, exts0) }

\* the set of outcomes find_raw_files can have
find_raw_files(jpeg_paths, base_exists, files, exts0) ==
    FindAll(jpeg_paths, 1, <<>>, base_exists, files, exts0)

----------------------------------------------------------------------------
(* The matcher called on its own (SpecFinder)                              *)

RECURSIVE SubsetsUpTo(_, _)
SubsetsUpTo(S, n) ==
    IF n = 0 THEN {{}}
    ELSE LET P == SubsetsUpTo(S, n - 1) IN P \cup {p \cup {x} : p \in P, x \in S}

RECURSIVE SeqsUpTo(_, _)
SeqsUpTo(S, n) ==
    IF n = 0 THEN {<<>>}
    ELSE LET P == SeqsUpTo(S, n - 1) IN P \cup {Append(p, x) : p \in P, x \in S}

ExtensionChoices == {NoneExt, <<".DNG">>, <<>>, <<".ARW", ".arw">>}
NoCall == [jpeg |-> NoPath, list |-> <<>>, exts |-> NoneExt]
NoOut == [exc |-> "", val |-> NoPath, map |-> <<>>]

NoError == [type |-> "", msg |-> ""]
NoResult == <<[k |-> NoPath, v |-> <<"not returned">>]>>

NoTaggerCall ==
    [fn |-> "", path |-> NoPath, list |-> <<>>, keywords |-> <<>>, mapping |-> <<>>,
     exiftool |-> <<>>]
NoTaggerOut ==
    [exc |-> "", named |-> NoPath, returncode |-> 0, output |-> "", val |-> NoPath]

\* xmp_tagger.py not called on its own
TaggerIdle ==
    /\ t_pc = "idle"
    /\ t_call = NoTaggerCall
    /\ t_out = NoTaggerOut
    /\ t_idx = 0
    /\ t_with = <<>>
    /\ t_without = <<>>
    /\ t_cmds = <<>>
    /\ t_before = <<>>
    /\ t_calls = 0
    /\ t_limit = 0

None == "None"                   \* Python's None where a str is expected
NoGenCall == [image |-> NoPath, api_key |-> None]
NoGenOut == [exc |-> "", msg |-> "", text |-> <<>>, val |-> <<>>]

\* generate_keywords not called on its own
GeneratorIdle ==
    /\ imageExists = TRUE
    /\ environ = None
    /\ g_pc = "idle"
    /\ g_call = NoGenCall
    /\ api_key = None
    /\ mime_type = ""
    /\ g_client = None
    /\ g_chunks = <<>>
    /\ response_text = <<>>
    /\ g_out = NoGenOut

NoArgv == [api_key |-> None, extensions |-> <<>>]
NoExit == <<>>

\* the command not run
CliIdle ==
    /\ c_pc = "idle"
    /\ argv = NoArgv
    /\ cli_api_key = None
    /\ exit_code = NoExit
    /\ stdout = <<>>
    /\ stderr = <<>>

\* process_directory not called
PipelineIdle ==
    /\ pc = "idle"
    /\ extensions = NoneExt
    /\ idx = 0
    /\ jpeg_files = <<>>
    /\ jpeg_to_raw = <<>>
    /\ missing_raw_files = <<>>
    /\ raw_files = <<>>
    /\ files_with_xmp = <<>>
    /\ files_without_xmp = <<>>
    /\ raw_to_keywords = <<>>
    /\ b_files_with_xmp = <<>>
    /\ warnings = {}
    /\ requests = <<>>
    /\ stages = <<>>
    /\ execLog = <<>>
    /\ error = NoError
    /\ result = NoResult

InitFinder ==
    /\ jpegDirKind = "dir"
    /\ jpegDirFiles = {}
    /\ taxonomyExists = TRUE
    /\ rawRootExists \in BOOLEAN
    /\ rawFiles \in (IF rawRootExists THEN SubsetsUpTo(RawUniverse, MaxRawFiles) ELSE {{}})
    /\ xmpFiles = {}
    /\ xmpSubjects = <<>>
    /\ TaggerIdle
    /\ GeneratorIdle
    /\ f_pc = "ready"
    /\ f_call = NoCall
    /\ f_out = NoOut
    /\ PipelineIdle
    /\ CliIdle

CallFindRawFile ==
    /\ f_pc = "ready"
    /\ \E jpeg \in FinderJpegs, exts \in ExtensionChoices :
          \E o \in find_raw_file(jpeg, rawRootExists, rawFiles, exts) :
             /\ f_call' = [jpeg |-> jpeg, list |-> <<>>, exts |-> exts]
             /\ f_out' = [exc |-> o.exc, val |-> o.val, map |-> <<>>]
    /\ f_pc' = "single"
    /\ UNCHANGED <<fsVars, taggerVars, genVars, cliVars, pipeVars>>

CallFindRawFiles ==
    /\ f_pc = "ready"
    /\ \E list \in SeqsUpTo(FinderJpegs, MaxList), exts \in ExtensionChoices :
          \E o \in find_raw_files(list, rawRootExists, rawFiles, exts) :
             /\ f_call' = [jpeg |-> NoPath, list |-> list, exts |-> exts]
             /\ f_out' = [exc |-> o.exc, val |-> NoPath, map |-> o.map]
    /\ f_pc' = "batch"
    /\ UNCHANGED <<fsVars, taggerVars, genVars, cliVars, pipeVars>>

NextFinder == CallFindRawFile \/ CallFindRawFiles

SpecFinder == InitFinder /\ [][NextFinder]_vars

----------------------------------------------------------------------------
(* xmp_tagger.py                                                           *)

\* ".xmp" put after the whole name, the extension kept
get_xmp_path_KeepsSuffix(raw_file) == Path(raw_file.dir, raw_file.name \o <<".xmp">>)

\* the sidecar looked for at the top of the root, whatever the RAW file's
\* directory
get_xmp_path_IgnoresDir(raw_file) == Path("top", stem(raw_file) \o <<".xmp">>)

\* raw_file.parent / f"{raw_file.stem}.xmp"
get_xmp_path(raw_file) == Path(raw_file.dir, stem(raw_file) \o <<".xmp">>)

check_xmp_exists(raw_file, xmps) == get_xmp_path(raw_file) \in xmps

\* a file without a sidecar is left out of both lists
ensure_step_DropsMissing(raw_file, xmps, with, without) ==
    IF check_xmp_exists(raw_file, xmps)
    THEN [with |-> Append(with, raw_file), without |-> without]
    ELSE [with |-> with, without |-> without]

\* one turn of the loop of ensure_xmp_sidecars: the two lists after raw_file
ensure_step(raw_file, xmps, with, without) ==
    IF check_xmp_exists(raw_file, xmps)
    THEN [with |-> Append(with, raw_file), without |-> without]
    ELSE [with |-> with, without |-> Append(without, raw_file)]

\* ensure_xmp_sidecars from the i-th file on, the two lists so far given
RECURSIVE EnsureFrom(_, _, _, _, _)
EnsureFrom(raws, i, xmps, with, without) ==
    IF i > Len(raws) THEN [with |-> with, without |-> without]
    ELSE LET r == ensure_step(raws[i], xmps, with, without)
         IN  EnsureFrom(raws, i + 1, xmps, r.with, r.without)

ensure_xmp_sidecars(raws, xmps) == EnsureFrom(raws, 1, xmps, <<>>, <<>>)

ExitCodes == {0, 1, 2}           \* exiftool: success, failures

\* how an exiftool run can end: its exit code and what it printed
ExiftoolResults == {[rc |-> rc, out |-> IF rc = 1 THEN "Error" ELSE ""] : rc \in ExitCodes}

\* str(path)
str(p) == <<p.dir, "/">> \o p.name

\* the keywords joined with commas into one argument
RECURSIVE JoinKeywords(_)
JoinKeywords(keywords) ==
    IF Len(keywords) = 1 THEN keywords[1]
    ELSE keywords[1] \o <<",">> \o JoinKeywords(Tail(keywords))
exiftool_cmd_Joined(exiftool_path, keywords, xmp_file) ==
    <<exiftool_path, <<"-overwrite_original">>,
      <<"-XMP-dc:Subject+=">> \o JoinKeywords(keywords), str(xmp_file)>>

\* lines 118-128: the argument vector, every argument a sequence of tokens
\* (a keyword is a sequence of characters)
exiftool_cmd(exiftool_path, keywords, xmp_file) ==
    <<exiftool_path, <<"-overwrite_original">>>>
      \o [j \in DOMAIN keywords |-> <<"-XMP-dc:Subject+=">> \o keywords[j]]
      \o <<str(xmp_file)>>

\* a return or an exception of the functions of xmp_tagger.py: the type of
\* the exception ("" for a normal return), the path its message names, the
\* exit code and output it carries, and the exiftool runs that were made
Outcome(exc, named, returncode, output, run) ==
    [exc |-> exc, named |-> named, returncode |-> returncode, output |-> output,
     run |-> run]
Returns == Outcome("", NoPath, 0, "", <<>>)

\* exiftool run also when there is no keyword to add
add_keywords_to_xmp_RunsWhenEmpty(xmp_file, keywords, xmps) ==
    IF xmp_file \notin xmps
    THEN {Outcome("FileNotFoundError", xmp_file, 0, "", <<>>)}
    ELSE {Outcome(IF r.rc = 0 THEN "" ELSE "CalledProcessError", NoPath,
                  r.rc, IF r.rc = 0 THEN "" ELSE r.out,
                  <<[xmp |-> xmp_file, keywords |-> keywords, rc |-> r.rc]>>)
          : r \in ExiftoolResults}

\* the keywords looked at before the sidecar
add_keywords_to_xmp_EmptyFirst(xmp_file, keywords, xmps) ==
    IF keywords = <<>>
    THEN {Returns}
    ELSE IF xmp_file \notin xmps
    THEN {Outcome("FileNotFoundError", xmp_file, 0, "", <<>>)}
    ELSE {Outcome(IF r.rc = 0 THEN "" ELSE "CalledProcessError", NoPath,
                  r.rc, IF r.rc = 0 THEN "" ELSE r.out,
                  <<[xmp |-> xmp_file, keywords |-> keywords, rc |-> r.rc]>>)
          : r \in ExiftoolResults}

\* a failure of exiftool caught: the call returns
add_keywords_to_xmp_SwallowsFailure(xmp_file, keywords, xmps) ==
    IF xmp_file \notin xmps
    THEN {Outcome("FileNotFoundError", xmp_file, 0, "", <<>>)}
    ELSE IF keywords = <<>>
    THEN {Returns}
    ELSE {Outcome("", NoPath, 0, "",
                  <<[xmp |-> xmp_file, keywords |-> keywords, rc |-> r.rc]>>)
          : r \in ExiftoolResults}

\* the set of outcomes add_keywords_to_xmp can have; subprocess.run with
\* check=True raises CalledProcessError itself when the exit code is not 0
add_keywords_to_xmp(xmp_file, keywords, xmps) ==
    IF xmp_file \notin xmps
    THEN {Outcome("FileNotFoundError", xmp_file, 0, "", <<>>)}
    ELSE IF keywords = <<>>
    THEN {Returns}
    ELSE {Outcome(IF r.rc = 0 THEN "" ELSE "CalledProcessError", NoPath,
                  r.rc, IF r.rc = 0 THEN "" ELSE r.out,
                  <<[xmp |-> xmp_file, keywords |-> keywords, rc |-> r.rc]>>)
          : r \in ExiftoolResults}

\* the sidecar looked for before the RAW file
add_keywords_to_raw_SidecarFirst(raw_file, keywords, raws, xmps) ==
    IF ensure_xmp_sidecars(<<raw_file>>, xmps).without # <<>>
    THEN {Outcome("XMPSidecarError", raw_file, 0, "", <<>>)}
    ELSE IF raw_file \notin raws
    THEN {Outcome("FileNotFoundError", raw_file, 0, "", <<>>)}
    ELSE add_keywords_to_xmp(get_xmp_path(raw_file), keywords, xmps)

\* the set of outcomes add_keywords_to_raw can have
add_keywords_to_raw(raw_file, keywords, raws, xmps) ==
    IF raw_file \notin raws
    THEN {Outcome("FileNotFoundError", raw_file, 0, "", <<>>)}
    ELSE IF ensure_xmp_sidecars(<<raw_file>>, xmps).without # <<>>
    THEN {Outcome("XMPSidecarError", raw_file, 0, "", <<>>)}
    ELSE add_keywords_to_xmp(get_xmp_path(raw_file), keywords, xmps)

\* the entries without a sidecar written too
eligible_IgnoresSidecar(raw_file, keywords, with) == keywords # <<>>

\* line 226: raw_file in files_with_xmp and keywords
eligible(raw_file, keywords, with) == raw_file \in Range(with) /\ keywords # <<>>

\* a failed run undoes what the runs before it have added
ApplyRuns_Rollback(subjects, run) ==
    IF \E j \in DOMAIN run : run[j].rc # 0
    THEN [x \in DOMAIN subjects |-> <<>>]
    ELSE IF run = <<>> THEN subjects
    ELSE [subjects EXCEPT ![run[1].xmp] = @ \o run[1].keywords]

\* exiftool -XMP-dc:Subject+=...: a run that ends with exit code 0 has
\* appended its keywords to the sidecar, any other run has left it as it was
RECURSIVE ApplyRuns(_, _)
ApplyRuns(subjects, run) ==
    IF run = <<>> THEN subjects
    ELSE LET r == Head(run)
             s == IF r.rc = 0 /\ r.xmp \in DOMAIN subjects
                  THEN [subjects EXCEPT ![r.xmp] = @ \o r.keywords]
                  ELSE subjects
         IN  ApplyRuns(s, Tail(run))

----------------------------------------------------------------------------
(* xmp_tagger.py called on its own (SpecXmpPath, SpecTagger, SpecBatch)    *)

MaxCalls == 2        \* calls made one after the other
MaxBatch == 2        \* entries of the mapping given to batch_add_keywords

\* names with and without an extension, hidden, with several dots, ending
\* with a dot, and sidecar names
XmpPathNames ==
    {<<"a", ".arw">>, <<"a", ".ARW">>, <<"a", ".dng">>, <<"b", ".arw">>, <<"a">>,
     <<".arw">>, <<"a", ".", "b", ".ARW">>, <<"a", ".">>, <<"a", ".", ".arw">>,
     <<"a", ".xmp">>, <<".xmp">>, <<"a", ".xmp", ".arw">>}
XmpPathInputs == {Path(d, n) : d \in RawDirs, n \in XmpPathNames}

\* a.arw and a.ARW share the sidecar a.xmp
TaggerRaws == {Path("top", <<"a", ".arw">>), Path("top", <<"a", ".ARW">>),
               Path("top", <<"b", ".arw">>)}
TaggerXmps == {get_xmp_path(r) : r \in TaggerRaws}

\* keywords: x, y and "x,y"
TaggerKeywordSeqs == {<<>>, << <<"x", ",", "y">> >>, << <<"x">>, <<"y">> >>}
ExiftoolPaths == {<<"exiftool">>, <<"/opt/", "exiftool">>}

\* the dicts of at most n entries
RECURSIVE DictsUpTo(_, _, _)
DictsUpTo(K, V, n) ==
    IF n = 0 THEN {<<>>}
    ELSE LET P == DictsUpTo(K, V, n - 1)
         IN  P \cup {Append(d, [k |-> key, v |-> val]) : d \in P, key \in K, val \in V}

TaggerMappings ==
    {d \in DictsUpTo(TaggerRaws, TaggerKeywordSeqs, MaxBatch) :
        \A i, j \in DOMAIN d : d[i].k = d[j].k => i = j}

\* RAW files and sidecars on disk, nothing called yet
TaggerStart ==
    /\ jpegDirKind = "dir"
    /\ jpegDirFiles = {}
    /\ taxonomyExists = TRUE
    /\ rawRootExists = TRUE
    /\ rawFiles \in SUBSET TaggerRaws
    /\ xmpFiles \in SUBSET TaggerXmps
    /\ xmpSubjects = [x \in xmpFiles |-> <<>>]
    /\ f_pc = "idle"
    /\ f_call = NoCall
    /\ f_out = NoOut
    /\ t_pc = "ready"
    /\ t_call = NoTaggerCall
    /\ t_out = NoTaggerOut
    /\ t_idx = 0
    /\ t_with = <<>>
    /\ t_without = <<>>
    /\ t_cmds = <<>>
    /\ t_before = xmpSubjects
    /\ t_calls = 0
    /\ GeneratorIdle
    /\ PipelineIdle
    /\ CliIdle

\* a caller that makes up to MaxCalls calls
InitTagger == TaggerStart /\ t_limit = MaxCalls

\* a caller that makes one call
InitBatch == TaggerStart /\ t_limit = 1

\* a new call can be made when the one before has ended
CanCall == t_pc \in {"ready", "returned", "raised"} /\ t_calls < t_limit

\* the subprocess.run calls behind the exiftool runs of an outcome
Cmds(exiftool_path, run) ==
    [j \in DOMAIN run |->
        [cmd |-> exiftool_cmd(exiftool_path, run[j].keywords, run[j].xmp),
         rc |-> run[j].rc]]

\* the call ends with outcome o: it returns val or raises
Finish(o, val) ==
    /\ t_pc' = IF o.exc = "" THEN "returned" ELSE "raised"
    /\ t_out' = [exc |-> o.exc, named |-> o.named, returncode |-> o.returncode,
                  output |-> o.output, val |-> val]

Begin(call) ==
    /\ t_call' = call
    /\ t_before' = xmpSubjects
    /\ t_calls' = t_calls + 1

CallGetXmpPath ==
    /\ CanCall
    /\ \E raw_file \in XmpPathInputs :
          /\ Begin([NoTaggerCall EXCEPT !.fn = "get_xmp_path", !.path = raw_file])
          /\ Finish(Returns, get_xmp_path(raw_file))
    /\ t_cmds' = <<>>
    /\ UNCHANGED <<fsVars, finderVars, genVars, cliVars, pipeVars, t_idx, t_with, t_limit, t_without>>

CallAddKeywordsToXmp ==
    /\ CanCall
    /\ \E xmp_file \in TaggerXmps, keywords \in TaggerKeywordSeqs,
          exiftool_path \in ExiftoolPaths :
          /\ Begin([NoTaggerCall EXCEPT !.fn = "add_keywords_to_xmp", !.path = xmp_file,
                                        !.keywords = keywords, !.exiftool = exiftool_path])
          /\ \E o \in add_keywords_to_xmp(xmp_file, keywords, xmpFiles) :
                /\ Finish(o, NoPath)
                /\ t_cmds' = Cmds(exiftool_path, o.run)
                /\ xmpSubjects' = ApplyRuns(xmpSubjects, o.run)
    /\ UNCHANGED <<jpegDirKind, jpegDirFiles, rawRootExists, rawFiles, xmpFiles,
                   taxonomyExists, finderVars, genVars, cliVars, pipeVars, t_idx, t_with, t_limit, t_without>>

CallAddKeywordsToRaw ==
    /\ CanCall
    /\ \E raw_file \in TaggerRaws, keywords \in TaggerKeywordSeqs,
          exiftool_path \in ExiftoolPaths :
          /\ Begin([NoTaggerCall EXCEPT !.fn = "add_keywords_to_raw", !.path = raw_file,
                                        !.keywords = keywords, !.exiftool = exiftool_path])
          /\ \E o \in add_keywords_to_raw(raw_file, keywords, rawFiles, xmpFiles) :
                /\ Finish(o, NoPath)
                /\ t_cmds' = Cmds(exiftool_path, o.run)
                /\ xmpSubjects' = ApplyRuns(xmpSubjects, o.run)
    /\ UNCHANGED <<jpegDirKind, jpegDirFiles, rawRootExists, rawFiles, xmpFiles,
                   taxonomyExists, finderVars, genVars, cliVars, pipeVars, t_idx, t_with, t_limit, t_without>>

\* only the first RAW file of the mapping looked at
FirstAbsent_FirstOnly(keys, i, raws) ==
    IF keys # <<>> /\ keys[1] \notin raws THEN keys[1] ELSE NoPath

\* lines 214-219: the first RAW file of the mapping that does not exist
RECURSIVE FirstAbsent(_, _, _)
FirstAbsent(keys, i, raws) ==
    IF i > Len(keys) THEN NoPath
    ELSE IF keys[i] \notin raws THEN keys[i]
    ELSE FirstAbsent(keys, i + 1, raws)

\* batch_add_keywords, lines 214-222: the checks before the write loop
CallBatchAddKeywords ==
    /\ CanCall
    /\ \E raw_files_keywords \in TaggerMappings, exiftool_path \in ExiftoolPaths :
          LET keys == [j \in DOMAIN raw_files_keywords |-> raw_files_keywords[j].k]
              absent == FirstAbsent(keys, 1, rawFiles)
          IN  /\ Begin([NoTaggerCall EXCEPT !.fn = "batch_add_keywords",
                                            !.mapping = raw_files_keywords,
                                            !.exiftool = exiftool_path])
              /\ IF absent # NoPath
                 THEN /\ Finish(Outcome("FileNotFoundError", absent, 0, "", <<>>), NoPath)
                      /\ t_with' = <<>>
                      /\ t_idx' = 0
                 ELSE /\ t_pc' = "writing"
                      /\ t_out' = NoTaggerOut
                      /\ t_with' = ensure_xmp_sidecars(keys, xmpFiles).with
                      /\ t_idx' = 1
    /\ t_cmds' = <<>>
    /\ UNCHANGED <<fsVars, finderVars, genVars, cliVars, pipeVars, t_limit, t_without>>

\* lines 225-228, one turn of the loop
BatchAddOne ==
    /\ t_pc = "writing"
    /\ t_idx <= Len(t_call.mapping)
    /\ LET raw_file == t_call.mapping[t_idx].k
           keywords == t_call.mapping[t_idx].v
       IN  IF eligible(raw_file, keywords, t_with)
           THEN \E o \in add_keywords_to_xmp(get_xmp_path(raw_file), keywords, xmpFiles) :
                   /\ t_cmds' = t_cmds \o Cmds(t_call.exiftool, o.run)
                   /\ xmpSubjects' = ApplyRuns(xmpSubjects, o.run)
                   /\ IF o.exc # ""
                      THEN Finish(o, NoPath) /\ UNCHANGED t_idx
                      ELSE t_idx' = t_idx + 1 /\ UNCHANGED <<t_pc, t_out>>
           ELSE t_idx' = t_idx + 1 /\ UNCHANGED <<t_pc, t_out, t_cmds, xmpSubjects>>
    /\ UNCHANGED <<jpegDirKind, jpegDirFiles, rawRootExists, rawFiles, xmpFiles,
                   taxonomyExists, finderVars, genVars, cliVars, pipeVars, t_call, t_with,
                   t_without, t_before, t_calls, t_limit>>

\* the loop has ended: batch_add_keywords returns None
BatchAddReturn ==
    /\ t_pc = "writing"
    /\ t_idx > Len(t_call.mapping)
    /\ Finish(Returns, NoPath)
    /\ UNCHANGED <<fsVars, finderVars, genVars, cliVars, pipeVars, t_call, t_idx, t_with,
                   t_without, t_cmds, t_before, t_calls, t_limit>>

\* get_xmp_path called on its own, on any filesystem
NextXmpPath == CallGetXmpPath

SpecXmpPath == InitTagger /\ [][NextXmpPath]_vars

\* add_keywords_to_xmp and add_keywords_to_raw called one after the other
NextTagger ==
    \/ CallAddKeywordsToXmp
    \/ CallAddKeywordsToRaw

SpecTagger == InitTagger /\ [][NextTagger]_vars

\* one call of a writer, batch_add_keywords included
NextBatch ==
    \/ CallAddKeywordsToXmp
    \/ CallAddKeywordsToRaw
    \/ CallBatchAddKeywords
    \/ BatchAddOne
    \/ BatchAddReturn

SpecBatch == InitBatch /\ [][NextBatch]_vars

----------------------------------------------------------------------------
(* xmp_tagger.py: ensure_xmp_sidecars called on its own, while another      *)
(* process creates and removes sidecars (SpecEnsure)                       *)

\* the lists of RAW paths given to ensure_xmp_sidecars, repeats included
EnsureLists == SeqsUpTo(TaggerRaws, MaxList)

\* lines 71-72: the two lists are created empty
CallEnsureXmpSidecars ==
    /\ CanCall
    /\ \E raw_files_arg \in EnsureLists :
          Begin([NoTaggerCall EXCEPT !.fn = "ensure_xmp_sidecars", !.list = raw_files_arg])
    /\ t_pc' = "checking"
    /\ t_out' = NoTaggerOut
    /\ t_idx' = 1
    /\ t_with' = <<>>
    /\ t_without' = <<>>
    /\ t_cmds' = <<>>
    /\ UNCHANGED <<fsVars, finderVars, genVars, cliVars, pipeVars, t_limit>>

\* lines 74-78, one turn of the loop
EnsureOne ==
    /\ t_pc = "checking"
    /\ t_idx <= Len(t_call.list)
    /\ LET r == ensure_step(t_call.list[t_idx], xmpFiles, t_with, t_without)
       IN  t_with' = r.with /\ t_without' = r.without
    /\ t_idx' = t_idx + 1
    /\ UNCHANGED <<fsVars, finderVars, genVars, cliVars, pipeVars, t_pc, t_call, t_out,
                   t_cmds, t_before, t_calls, t_limit>>

\* line 80
EnsureReturn ==
    /\ t_pc = "checking"
    /\ t_idx > Len(t_call.list)
    /\ Finish(Returns, NoPath)
    /\ UNCHANGED <<fsVars, finderVars, genVars, cliVars, pipeVars, t_call, t_idx, t_with,
                   t_without, t_cmds, t_before, t_calls, t_limit>>

\* another process creates an empty sidecar or removes one, at any time
EnvToggleXmp ==
    /\ \E x \in TaggerXmps :
          LET now == IF x \in xmpFiles THEN xmpFiles \ {x} ELSE xmpFiles \cup {x}
          IN  /\ xmpFiles' = now
              /\ xmpSubjects' = [y \in now |-> IF y \in xmpFiles THEN xmpSubjects[y]
                                               ELSE <<>>]
    /\ UNCHANGED <<jpegDirKind, jpegDirFiles, rawRootExists, rawFiles, taxonomyExists,
                   finderVars, taggerVars, genVars, cliVars, pipeVars>>

NextEnsure ==
    \/ CallEnsureXmpSidecars
    \/ EnsureOne
    \/ EnsureReturn
    \/ EnvToggleXmp

SpecEnsure == InitBatch /\ [][NextEnsure]_vars

----------------------------------------------------------------------------
(* keyword_generator.py: generate_keywords called on its own (SpecGenerate)*)

MaxChunks == 3       \* chunks of one streamed response

\* str.lower() of an extension
lower(ext) ==
    CASE ext = <<".JPG">> -> <<".jpg">>
      [] ext = <<".JPEG">> -> <<".jpeg">>
      [] ext = <<".PNG">> -> <<".png">>
      [] OTHER -> ext

\* _get_mime_type: the table of extensions, image/jpeg for any other
_get_mime_type(image_path) ==
    LET extension == lower(suffix(image_path))
    IN  CASE extension \in {<<".jpg">>, <<".jpeg">>} -> "image/jpeg"
          [] extension = <<".png">> -> "image/png"
          [] OTHER -> "image/jpeg"

\* lines 47-48: the credential after the environment was consulted
resolve_api_key(key, env) == IF key = None THEN env ELSE key

GenErr(t, m) == [exc |-> t, msg |-> m, text |-> <<>>, val |-> <<>>]

\* the credential looked at before the two paths
GenValidationError_CredentialFirst(image_exists, taxonomy_exists, key) ==
    IF key \in {None, ""} THEN GenErr("ValueError", "API key must be provided")
    ELSE IF ~image_exists THEN GenErr("FileNotFoundError", "Image file not found")
    ELSE IF ~taxonomy_exists THEN GenErr("FileNotFoundError", "Taxonomy file not found")
    ELSE NoGenOut

\* lines 41-50: the checks at the head of generate_keywords, key resolved
GenValidationError(image_exists, taxonomy_exists, key) ==
    IF ~image_exists THEN GenErr("FileNotFoundError", "Image file not found")
    ELSE IF ~taxonomy_exists THEN GenErr("FileNotFoundError", "Taxonomy file not found")
    ELSE IF key \in {None, ""} THEN GenErr("ValueError", "API key must be provided")
    ELSE NoGenOut

\* ---- the response: a text is a sequence of JSON tokens
NoText == <<"None">>             \* chunk.text is None
K1 == "\"landscape\""
K2 == "\"sunset\""
StrTokens == {K1, K2}
unquote(tok) == IF tok = K1 THEN "landscape" ELSE "sunset"

ChunkTexts ==
    {NoText, <<>>, <<"{", "\"keywords\"", ":", "[", K1>>, <<",", K2>>, <<"]", "}">>,
     <<"{", "}">>, <<"[", K1, "]">>, <<"oops">>}

\* a JSON array of strings
IsArray(t) ==
    /\ Len(t) >= 2
    /\ t[1] = "[" /\ t[Len(t)] = "]"
    /\ \/ Len(t) = 2
       \/ /\ Len(t) % 2 = 1
          /\ \A j \in 2..(Len(t) - 1) :
                IF j % 2 = 0 THEN t[j] \in StrTokens ELSE t[j] = ","
ArrayItems(t) == [j \in 1..((Len(t) - 1) \div 2) |-> unquote(t[2 * j])]

\* a JSON object that is empty or has the one member "keywords": array
IsObject(t) ==
    \/ t = <<"{", "}">>
    \/ /\ Len(t) >= 6
       /\ t[1] = "{" /\ t[2] = "\"keywords\"" /\ t[3] = ":" /\ t[Len(t)] = "}"
       /\ IsArray(SubSeq(t, 4, Len(t) - 1))

\* lines 121-127: json.loads, result.get("keywords", []), and the except
\* clause, which catches json.JSONDecodeError only
parse_response(text) ==
    IF IsObject(text)
    THEN [exc |-> "", msg |-> "", text |-> <<>>,
          val |-> IF Len(text) = 2 THEN <<>>
                  ELSE ArrayItems(SubSeq(text, 4, Len(text) - 1))]
    ELSE IF IsArray(text)
    THEN [exc |-> "AttributeError", msg |-> "'list' object has no attribute 'get'",
          text |-> <<>>, val |-> <<>>]
    ELSE [exc |-> "ValueError", msg |-> "Failed to parse Gemini response as JSON",
          text |-> text, val |-> <<>>]

\* the text is replaced by each chunk instead of growing
accumulate_LastChunkOnly(text, chunk) ==
    IF chunk # NoText /\ chunk # <<>> THEN chunk ELSE text

\* lines 118-119: `if chunk.text: response_text += chunk.text`
accumulate(text, chunk) ==
    IF chunk # NoText /\ chunk # <<>> THEN text \o chunk ELSE text

GenImages == {Path("jpegs", <<"a", ".jpg">>), Path("jpegs", <<"a", ".PNG">>),
              Path("jpegs", <<"a", ".xyz">>)}
ApiKeys == {None, "", "argkey"}          \* argument api_key
EnvKeys == {None, "", "envkey"}          \* GEMINI_API_KEY: unset, empty, set

InitGenerate ==
    /\ jpegDirKind = "dir"
    /\ jpegDirFiles = {}
    /\ rawRootExists = TRUE
    /\ rawFiles = {}
    /\ xmpFiles = {}
    /\ xmpSubjects = <<>>
    /\ taxonomyExists \in BOOLEAN
    /\ f_pc = "idle"
    /\ f_call = NoCall
    /\ f_out = NoOut
    /\ TaggerIdle
    /\ PipelineIdle
    /\ imageExists \in BOOLEAN
    /\ environ \in EnvKeys
    /\ g_pc = "validate"
    /\ g_call \in [image : GenImages, api_key : ApiKeys]
    /\ api_key = g_call.api_key
    /\ mime_type = ""
    /\ g_client = None
    /\ g_chunks = <<>>
    /\ response_text = <<>>
    /\ g_out = NoGenOut
    /\ CliIdle

GenRaise(e) == g_pc' = "raised" /\ g_out' = e

\* lines 41-50
GenValidate ==
    /\ g_pc = "validate"
    /\ api_key' = resolve_api_key(g_call.api_key, environ)
    /\ LET e == GenValidationError(imageExists, taxonomyExists, api_key')
       IN  IF e # NoGenOut THEN GenRaise(e) ELSE g_pc' = "prepare" /\ UNCHANGED g_out
    /\ UNCHANGED <<fsVars, finderVars, taggerVars, pipeVars, cliVars, imageExists, environ,
                   g_call, mime_type, g_client, g_chunks, response_text>>

\* lines 52-111: the inputs are read, the client is created and the request
\* is issued
GenPrepare ==
    /\ g_pc = "prepare"
    /\ mime_type' = _get_mime_type(g_call.image)
    /\ g_client' = api_key
    /\ g_pc' = "stream"
    /\ UNCHANGED <<fsVars, finderVars, taggerVars, pipeVars, cliVars, imageExists, environ,
                   g_call, api_key, g_chunks, response_text, g_out>>

\* lines 113-119, one turn of the loop: a chunk arrives
GenChunk ==
    /\ g_pc = "stream"
    /\ Len(g_chunks) < MaxChunks
    /\ \E chunk \in ChunkTexts :
          /\ g_chunks' = Append(g_chunks, chunk)
          /\ response_text' = accumulate(response_text, chunk)
    /\ UNCHANGED <<fsVars, finderVars, taggerVars, pipeVars, cliVars, imageExists, environ,
                   g_pc, g_call, api_key, mime_type, g_client, g_out>>

\* the request or the stream fails: the exception of the client leaves
\* generate_keywords
GenStreamFails ==
    /\ g_pc = "stream"
    /\ GenRaise(GenErr("APIError", "generate_content_stream"))
    /\ UNCHANGED <<fsVars, finderVars, taggerVars, pipeVars, cliVars, imageExists, environ,
                   g_call, api_key, mime_type, g_client, g_chunks, response_text>>

\* lines 121-127: the stream has ended
GenParse ==
    /\ g_pc = "stream"
    /\ LET r == parse_response(response_text)
       IN  IF r.exc # "" THEN GenRaise(r) ELSE g_pc' = "returned" /\ g_out' = r
    /\ UNCHANGED <<fsVars, finderVars, taggerVars, pipeVars, cliVars, imageExists, environ,
                   g_call, api_key, mime_type, g_client, g_chunks, response_text>>

NextGenerate ==
    \/ GenValidate
    \/ GenPrepare
    \/ GenChunk
    \/ GenStreamFails
    \/ GenParse

SpecGenerate == InitGenerate /\ [][NextGenerate]_vars

----------------------------------------------------------------------------
(* pipeline.py: process_directory (Spec)                                   *)

JpegDirUniverse ==
    {<<"a", ".jpg">>, <<"a", ".jpeg">>, <<"b", ".JPG">>, <<"a", ".txt">>}
PipelineRawUniverse ==
    {Path(d, <<c, e>>) : d \in RawDirs, c \in {"a", "b"}, e \in {".arw", ".DNG"}}
PipelineExtChoices == {NoneExt, <<".DNG">>}
KeywordSeqs == {<<>>, <<"k1">>, <<"k2", "k1">>}
GenerateFailures == {"ValueError", "APIError"}

JpegPatterns == << <<"*", ".jpg">>, <<"*", ".JPG">>, <<"*", ".jpeg">>, <<"*", ".JPEG">> >>

\* jpeg_dir.glob(pattern): the files directly in the directory that match
dir_glob(names, pattern) == {Path("jpegs", n) : n \in {m \in names : GlobMatch(pattern, m)}}

\* list(<a glob>): the matches in the order the directory scan yields them
Orderings(S) == {q \in [1..Cardinality(S) -> S] : Range(q) = S}

\* the lists jpeg_files can be after the four globs
DiscoverLists(names) ==
    { a \o b \o c \o d : a \in Orderings(dir_glob(names, JpegPatterns[1])),
                         b \in Orderings(dir_glob(names, JpegPatterns[2])),
                         c \in Orderings(dir_glob(names, JpegPatterns[3])),
                         d \in Orderings(dir_glob(names, JpegPatterns[4])) }

Err(t, m) == [type |-> t, msg |-> m]

\* the taxonomy looked at before the RAW search root
ValidationError_TaxonomyFirst(kind, rawExists, taxExists) ==
    IF kind = "missing" THEN Err("FileNotFoundError", "JPEG directory not found")
    ELSE IF kind # "dir" THEN Err("NotADirectoryError", "JPEG path is not a directory")
    ELSE IF ~taxExists THEN Err("FileNotFoundError", "Taxonomy file not found")
    ELSE IF ~rawExists THEN Err("FileNotFoundError", "RAW search path not found")
    ELSE NoError

\* the exists / is_dir checks at the head of process_directory
ValidationError(kind, rawExists, taxExists) ==
    IF kind = "missing" THEN Err("FileNotFoundError", "JPEG directory not found")
    ELSE IF kind # "dir" THEN Err("NotADirectoryError", "JPEG path is not a directory")
    ELSE IF ~rawExists THEN Err("FileNotFoundError", "RAW search path not found")
    ELSE IF ~taxExists THEN Err("FileNotFoundError", "Taxonomy file not found")
    ELSE NoError

\* the warning lines
MissingRawLine(jpeg_file) ==
    [kind |-> "missing_raw", name |-> jpeg_file.name, expected |-> NoPath]
MissingXmpLine(raw_file) ==
    [kind |-> "missing_xmp", name |-> raw_file.name,
     expected |-> Path(raw_file.dir, stem(raw_file) \o <<".xmp">>)]

\* lines 104-109 and 121-127: the warnings are printed before the check
\* that raises
WarnMissingRaw(w, missing) == w \cup {MissingRawLine(j) : j \in Range(missing)}
WarnMissingXmp_NameOnly(w, without) ==
    w \cup {[kind |-> "missing_xmp", name |-> r.name, expected |-> NoPath]
            : r \in Range(without)}
WarnMissingXmp(w, without) == w \cup {MissingXmpLine(r) : r \in Range(without)}

\* lines 86-87, 111-112, 129-130: an empty surviving set ends the run
StageError_Never(survivors, msg) == NoError
StageError(survivors, msg) ==
    IF survivors = <<>> THEN Err("PipelineError", msg) ELSE NoError

\* a generate_keywords call that is repeated once when it fails
RecordRequest_Retry(reqs, image, exc, keywords) ==
    LET r == [image |-> image, exc |-> exc, keywords |-> keywords]
    IN  IF exc # "" THEN Append(Append(reqs, r), r) ELSE Append(reqs, r)

\* every generate_keywords call made twice
RecordRequest_Twice(reqs, image, exc, keywords) ==
    LET r == [image |-> image, exc |-> exc, keywords |-> keywords]
    IN  Append(Append(reqs, r), r)

\* lines 142-148: generate_keywords is called once for the entry
RecordRequest(reqs, image, exc, keywords) ==
    Append(reqs, [image |-> image, exc |-> exc, keywords |-> keywords])

DictValues(d) == [j \in DOMAIN d |-> d[j].v]

\* the comprehension without its condition
WithXmpOnly_NoFilter(j2r, with) == j2r

\* {jpeg: raw for jpeg, raw in jpeg_to_raw.items() if raw in files_with_xmp}
WithXmpOnly(j2r, with) == SelectSeq(j2r, LAMBDA e : e.v \in Range(with))
jpeg_to_raw_with_xmp == WithXmpOnly(jpeg_to_raw, files_with_xmp)

Init ==
    /\ jpegDirKind \in {"missing", "file", "dir"}
    /\ jpegDirFiles \in (IF jpegDirKind = "dir"
                         THEN SubsetsUpTo(JpegDirUniverse, MaxJpegs) ELSE {{}})
    /\ rawRootExists \in BOOLEAN
    /\ rawFiles \in (IF rawRootExists
                     THEN SubsetsUpTo(PipelineRawUniverse, MaxRawFiles) ELSE {{}})
    /\ xmpFiles \in SUBSET {get_xmp_path(r) : r \in rawFiles}
    /\ xmpSubjects = [x \in xmpFiles |-> <<>>]
    /\ taxonomyExists \in BOOLEAN
    /\ f_pc = "idle"
    /\ f_call = NoCall
    /\ f_out = NoOut
    /\ TaggerIdle
    /\ GeneratorIdle
    /\ pc = "validate"
    /\ extensions \in PipelineExtChoices
    /\ idx = 0
    /\ jpeg_files = <<>>
    /\ jpeg_to_raw = <<>>
    /\ missing_raw_files = <<>>
    /\ raw_files = <<>>
    /\ files_with_xmp = <<>>
    /\ files_without_xmp = <<>>
    /\ raw_to_keywords = <<>>
    /\ b_files_with_xmp = <<>>
    /\ warnings = {}
    /\ requests = <<>>
    /\ stages = <<"validate">>
    /\ execLog = <<>>
    /\ error = NoError
    /\ result = NoResult
    /\ CliIdle

\* the exception is noted and the run goes on where it was
Fail_GoesOn(e) == error' = e /\ UNCHANGED <<pc, stages>>

\* raise e out of process_directory
Fail(e) == pc' = "failed" /\ error' = e /\ UNCHANGED stages

\* sidecar verification left out: matching goes straight on to generation
Enter_SkipsVerify(stage) ==
    /\ pc' = (IF stage = "verify" THEN "generate" ELSE stage)
    /\ stages' = Append(stages, pc')
    /\ UNCHANGED error

\* go on to the next stage
Enter(stage) == pc' = stage /\ stages' = Append(stages, stage) /\ UNCHANGED error

\* lines 66-79
Validate ==
    /\ pc = "validate"
    /\ LET e == ValidationError(jpegDirKind, rawRootExists, taxonomyExists)
       IN  IF e # NoError THEN Fail(e) ELSE Enter("discover")
    /\ UNCHANGED <<fsVars, finderVars, taggerVars, genVars, cliVars,
                   extensions, idx, jpeg_files, jpeg_to_raw,
                   missing_raw_files, raw_files, files_with_xmp, files_without_xmp,
                   raw_to_keywords, b_files_with_xmp, warnings, requests, execLog,
                   result>>

\* lines 81-89
Discover ==
    /\ pc = "discover"
    /\ \E found \in DiscoverLists(jpegDirFiles) :
          /\ jpeg_files' = found
          /\ LET e == StageError(found, "No JPEG files found")
             IN  IF e # NoError THEN Fail(e) /\ UNCHANGED idx
                 ELSE Enter("match") /\ idx' = 1
    /\ UNCHANGED <<fsVars, finderVars, taggerVars, genVars, cliVars,
                   extensions, jpeg_to_raw, missing_raw_files,
                   raw_files, files_with_xmp, files_without_xmp, raw_to_keywords,
                   b_files_with_xmp, warnings, requests, execLog, result>>

\* lines 96-101, one turn of the loop
MatchOne ==
    /\ pc = "match"
    /\ idx <= Len(jpeg_files)
    /\ LET jpeg_file == jpeg_files[idx] IN
       \E o \in find_raw_file(jpeg_file, rawRootExists, rawFiles, extensions) :
          IF o.exc # ""
          THEN /\ Fail(Err(o.exc, "Base path does not exist"))
               /\ UNCHANGED <<idx, jpeg_to_raw, missing_raw_files>>
          ELSE /\ IF o.val = NoPath
                  THEN /\ missing_raw_files' = Append(missing_raw_files, jpeg_file)
                       /\ UNCHANGED jpeg_to_raw
                  ELSE /\ jpeg_to_raw' = DictSet(jpeg_to_raw, jpeg_file, o.val)
                       /\ UNCHANGED missing_raw_files
               /\ idx' = idx + 1
               /\ UNCHANGED <<pc, error, stages>>
    /\ UNCHANGED <<fsVars, finderVars, taggerVars, genVars, cliVars,
                   extensions, jpeg_files, raw_files,
                   files_with_xmp, files_without_xmp, raw_to_keywords,
                   b_files_with_xmp, warnings, requests, execLog, result>>

\* lines 103-118, after the loop
MatchDone ==
    /\ pc = "match"
    /\ idx > Len(jpeg_files)
    /\ warnings' = WarnMissingRaw(warnings, missing_raw_files)
    /\ LET e == StageError(jpeg_to_raw, "No RAW files found for any JPEG files")
       IN  IF e # NoError
           THEN Fail(e) /\ UNCHANGED <<idx, raw_files>>
           ELSE /\ raw_files' = DictValues(jpeg_to_raw)
                /\ Enter("verify")
                /\ idx' = 1
    /\ UNCHANGED <<fsVars, finderVars, taggerVars, genVars, cliVars,
                   extensions, jpeg_files, jpeg_to_raw,
                   missing_raw_files, files_with_xmp, files_without_xmp,
                   raw_to_keywords, b_files_with_xmp, requests, execLog, result>>

\* line 119: one turn of the loop of ensure_xmp_sidecars(raw_files)
VerifyOne ==
    /\ pc = "verify"
    /\ idx <= Len(raw_files)
    /\ LET r == ensure_step(raw_files[idx], xmpFiles, files_with_xmp, files_without_xmp)
       IN  files_with_xmp' = r.with /\ files_without_xmp' = r.without
    /\ idx' = idx + 1
    /\ UNCHANGED <<fsVars, finderVars, taggerVars, genVars, cliVars,
                   pc, extensions, jpeg_files, jpeg_to_raw,
                   missing_raw_files, raw_files, raw_to_keywords, b_files_with_xmp,
                   warnings, requests, stages, execLog, error, result>>

\* lines 121-139, after ensure_xmp_sidecars returned
VerifyDone ==
    /\ pc = "verify"
    /\ idx > Len(raw_files)
    /\ warnings' = WarnMissingXmp(warnings, files_without_xmp)
    /\ LET e == StageError(files_with_xmp, "No files with XMP sidecars found")
       IN  IF e # NoError THEN Fail(e) /\ UNCHANGED idx
           ELSE Enter("generate") /\ idx' = 1
    /\ UNCHANGED <<fsVars, finderVars, taggerVars, genVars, cliVars,
                   extensions, jpeg_files, jpeg_to_raw,
                   missing_raw_files, raw_files, files_with_xmp, files_without_xmp,
                   raw_to_keywords, b_files_with_xmp, requests, execLog, result>>

\* lines 141-149, one turn of the loop: generate_keywords returns a keyword
\* list or raises
GenerateOne ==
    /\ pc = "generate"
    /\ idx <= Len(jpeg_to_raw_with_xmp)
    /\ LET e == jpeg_to_raw_with_xmp[idx] IN
       \/ \E keywords \in KeywordSeqs :
             /\ requests' = RecordRequest(requests, e.k, "", keywords)
             /\ raw_to_keywords' = DictSet(raw_to_keywords, e.v, keywords)
             /\ idx' = idx + 1
             /\ UNCHANGED <<pc, error, stages>>
       \/ \E x \in GenerateFailures :
             /\ requests' = RecordRequest(requests, e.k, x, <<>>)
             /\ Fail(Err(x, "generate_keywords"))
             /\ UNCHANGED <<idx, raw_to_keywords>>
    /\ UNCHANGED <<fsVars, finderVars, taggerVars, genVars, cliVars,
                   extensions, jpeg_files, jpeg_to_raw,
                   missing_raw_files, raw_files, files_with_xmp, files_without_xmp,
                   b_files_with_xmp, warnings, execLog, result>>

\* lines 151-155 and xmp_tagger.py 214-219: batch_add_keywords is called and
\* checks that every RAW file exists
BatchCheckRaw ==
    /\ pc = "generate"
    /\ idx > Len(jpeg_to_raw_with_xmp)
    /\ IF \E r \in DictKeys(raw_to_keywords) : r \notin rawFiles
       THEN Fail(Err("FileNotFoundError", "RAW file not found")) /\ UNCHANGED idx
       ELSE Enter("write_ensure") /\ idx' = 1
    /\ UNCHANGED <<fsVars, finderVars, taggerVars, genVars, cliVars,
                   extensions, jpeg_files, jpeg_to_raw,
                   missing_raw_files, raw_files, files_with_xmp, files_without_xmp,
                   raw_to_keywords, b_files_with_xmp, warnings, requests, execLog,
                   result>>

\* xmp_tagger.py 222: one turn of the loop of ensure_xmp_sidecars(raw_files)
BatchEnsureOne ==
    /\ pc = "write_ensure"
    /\ idx <= Len(raw_to_keywords)
    /\ b_files_with_xmp' =
          ensure_step(raw_to_keywords[idx].k, xmpFiles, b_files_with_xmp, <<>>).with
    /\ idx' = idx + 1
    /\ UNCHANGED <<fsVars, finderVars, taggerVars, genVars, cliVars,
                   pc, extensions, jpeg_files, jpeg_to_raw,
                   missing_raw_files, raw_files, files_with_xmp, files_without_xmp,
                   raw_to_keywords, warnings, requests, stages, execLog, error,
                   result>>

BatchEnsureDone ==
    /\ pc = "write_ensure"
    /\ idx > Len(raw_to_keywords)
    /\ pc' = "write"
    /\ idx' = 1
    /\ UNCHANGED <<fsVars, finderVars, taggerVars, genVars, cliVars,
                   extensions, jpeg_files, jpeg_to_raw,
                   missing_raw_files, raw_files, files_with_xmp, files_without_xmp,
                   raw_to_keywords, b_files_with_xmp, warnings, requests, stages,
                   execLog, error, result>>

\* xmp_tagger.py 225-228, one turn of the loop
BatchWriteOne ==
    /\ pc = "write"
    /\ idx <= Len(raw_to_keywords)
    /\ LET raw_file == raw_to_keywords[idx].k
           keywords == raw_to_keywords[idx].v
       IN  IF eligible(raw_file, keywords, b_files_with_xmp)
           THEN \E o \in add_keywords_to_xmp(get_xmp_path(raw_file), keywords, xmpFiles) :
                   /\ execLog' = execLog \o o.run
                   /\ xmpSubjects' = ApplyRuns(xmpSubjects, o.run)
                   /\ IF o.exc # ""
                      THEN Fail(Err(o.exc, "add_keywords_to_xmp")) /\ UNCHANGED idx
                      ELSE idx' = idx + 1 /\ UNCHANGED <<pc, error, stages>>
           ELSE idx' = idx + 1 /\ UNCHANGED <<pc, error, stages, execLog, xmpSubjects>>
    /\ UNCHANGED <<jpegDirKind, jpegDirFiles, rawRootExists, rawFiles, xmpFiles,
                   taxonomyExists, finderVars, taggerVars, genVars, cliVars,
                   extensions, jpeg_files, jpeg_to_raw,
                   missing_raw_files, raw_files, files_with_xmp, files_without_xmp,
                   raw_to_keywords, b_files_with_xmp, warnings, requests, result>>

\* lines 156-158
ReturnResults ==
    /\ pc = "write"
    /\ idx > Len(raw_to_keywords)
    /\ pc' = "done"
    /\ result' = raw_to_keywords
    /\ UNCHANGED <<fsVars, finderVars, taggerVars, genVars, cliVars,
                   extensions, idx, jpeg_files, jpeg_to_raw,
                   missing_raw_files, raw_files, files_with_xmp, files_without_xmp,
                   raw_to_keywords, b_files_with_xmp, warnings, requests, stages,
                   execLog, error>>

Running == {"discover", "match", "verify", "generate", "write_ensure", "write"}

\* another process removes a sidecar while process_directory runs (nothing
\* locks the sidecars)
EnvDeleteXmp ==
    /\ pc \in Running
    /\ \E x \in xmpFiles :
          /\ xmpFiles' = xmpFiles \ {x}
          /\ xmpSubjects' = [y \in xmpFiles \ {x} |-> xmpSubjects[y]]
    /\ UNCHANGED <<jpegDirKind, jpegDirFiles, rawRootExists, rawFiles, taxonomyExists,
                   finderVars, taggerVars, genVars, cliVars, pipeVars>>

Next ==
    \/ Validate
    \/ Discover
    \/ MatchOne
    \/ MatchDone
    \/ VerifyOne
    \/ VerifyDone
    \/ GenerateOne
    \/ BatchCheckRaw
    \/ BatchEnsureOne
    \/ BatchEnsureDone
    \/ BatchWriteOne
    \/ ReturnResults
    \/ EnvDeleteXmp

Spec == Init /\ [][Next]_vars

----------------------------------------------------------------------------
(* cli.py: the command main, with the pipeline it runs (SpecCli)           *)

CliJpegUniverse == {<<"a", ".jpg">>, <<"b", ".JPG">>}
CliRawUniverse == {Path("top", <<"a", ".arw">>), Path("sub", <<"b", ".DNG">>)}
CliArgs == [api_key : ApiKeys, extensions : {<<>>, <<".DNG">>}]

UsageLine == "Usage error"
CliLine(l, m) == [line |-> l, msg |-> m]

\* lines 11-23: click.Path(exists=True, ...) of the three arguments, checked
\* by click before main is called; the message of the first that fails
ClickPathError(kind, rawExists, taxExists) ==
    IF kind = "missing" THEN "Invalid value for 'JPEG_DIR': Directory does not exist."
    ELSE IF kind # "dir" THEN "Invalid value for 'JPEG_DIR': Directory is a file."
    ELSE IF ~rawExists
    THEN "Invalid value for 'RAW_SEARCH_PATH': Directory does not exist."
    ELSE IF ~taxExists THEN "Invalid value for 'TAXONOMY_PATH': File does not exist."
    ELSE ""

\* lines 24-29: --api-key with envvar="GEMINI_API_KEY": the value on the
\* command line, else the variable when it is set and not empty, else None
click_option(value, env) ==
    IF value # None THEN value
    ELSE IF env \notin {None, ""} THEN env
    ELSE None

\* line 88
extensions_list(exts0) == IF exts0 # <<>> THEN exts0 ELSE NoneExt

\* only an absent credential is refused
missing_api_key_NoneOnly(key) == key = None

\* line 91: `if not api_key`
missing_api_key(key) == key \in {None, ""}

\* lines 130-142: the except clauses, in their order
except_clause(e) ==
    IF e.type = "PipelineError" THEN CliLine("Pipeline error", e.msg)
    ELSE IF e.type = "FileNotFoundError" THEN CliLine("File not found", e.msg)
    ELSE CliLine("Unexpected error", e.msg)

InitCli ==
    /\ jpegDirKind \in {"missing", "file", "dir"}
    /\ jpegDirFiles \in (IF jpegDirKind = "dir"
                         THEN SubsetsUpTo(CliJpegUniverse, MaxJpegs) ELSE {{}})
    /\ rawRootExists \in BOOLEAN
    /\ rawFiles \in (IF rawRootExists
                     THEN SubsetsUpTo(CliRawUniverse, MaxRawFiles) ELSE {{}})
    /\ xmpFiles \in SUBSET {get_xmp_path(r) : r \in rawFiles}
    /\ xmpSubjects = [x \in xmpFiles |-> <<>>]
    /\ taxonomyExists \in BOOLEAN
    /\ f_pc = "idle"
    /\ f_call = NoCall
    /\ f_out = NoOut
    /\ TaggerIdle
    /\ imageExists = TRUE
    /\ environ \in EnvKeys
    /\ g_pc = "idle"
    /\ g_call = NoGenCall
    /\ api_key = None
    /\ mime_type = ""
    /\ g_client = None
    /\ g_chunks = <<>>
    /\ response_text = <<>>
    /\ g_out = NoGenOut
    /\ PipelineIdle
    /\ c_pc = "parse"
    /\ argv \in CliArgs
    /\ cli_api_key = None
    /\ exit_code = NoExit
    /\ stdout = <<>>
    /\ stderr = <<>>

\* sys.exit(code), or click leaving with code
CliExit(code) == c_pc' = "exited" /\ exit_code' = <<code>>

\* lines 11-62: click converts the command line; a usage error is shown on
\* the error stream and the process leaves with click's code 2
CliParse ==
    /\ c_pc = "parse"
    /\ LET e == ClickPathError(jpegDirKind, rawRootExists, taxonomyExists)
       IN  IF e # ""
           THEN /\ stderr' = Append(stderr, CliLine(UsageLine, e))
                /\ CliExit(2)
                /\ UNCHANGED cli_api_key
           ELSE /\ cli_api_key' = click_option(argv.api_key, environ)
                /\ c_pc' = "main"
                /\ UNCHANGED <<exit_code, stderr>>
    /\ UNCHANGED <<fsVars, finderVars, taggerVars, genVars, pipeVars, argv, stdout>>

\* lines 86-118: the credential check, then process_directory is called
CliMain ==
    /\ c_pc = "main"
    /\ IF missing_api_key(cli_api_key)
       THEN /\ stderr' = Append(stderr, CliLine("Error: API key not provided", ""))
            /\ CliExit(1)
            /\ UNCHANGED pipeVars
       ELSE /\ c_pc' = "pipeline"
            /\ pc' = "validate"
            /\ stages' = <<"validate">>
            /\ extensions' = extensions_list(argv.extensions)
            /\ UNCHANGED <<exit_code, stderr, idx, jpeg_files, jpeg_to_raw,
                           missing_raw_files, raw_files, files_with_xmp,
                           files_without_xmp, raw_to_keywords, b_files_with_xmp,
                           warnings, requests, execLog, error, result>>
    /\ UNCHANGED <<fsVars, finderVars, taggerVars, genVars, argv, cli_api_key, stdout>>

\* lines 120-142: process_directory has returned or raised
CliFinish ==
    /\ c_pc = "pipeline"
    /\ pc \in {"done", "failed"}
    /\ IF pc = "done"
       THEN /\ stdout' = Append(stdout, CliLine("Successfully processed", ""))
            /\ CliExit(0)
            /\ UNCHANGED stderr
       ELSE /\ stderr' = Append(stderr, except_clause(error))
            /\ CliExit(1)
            /\ UNCHANGED stdout
    /\ UNCHANGED <<fsVars, finderVars, taggerVars, genVars, pipeVars, argv,
                   cli_api_key>>

NextCli ==
    \/ CliParse
    \/ CliMain
    \/ Validate
    \/ Discover
    \/ MatchOne
    \/ MatchDone
    \/ VerifyOne
    \/ VerifyDone
    \/ GenerateOne
    \/ BatchCheckRaw
    \/ BatchEnsureOne
    \/ BatchEnsureDone
    \/ BatchWriteOne
    \/ ReturnResults
    \/ EnvDeleteXmp
    \/ CliFinish

SpecCli == InitCli /\ [][NextCli]_vars

----------------------------------------------------------------------------
(* Claims about process_directory, checked under Spec                      *)

Entered(stage) == stage \in Range(stages)
Last(q) == q[Len(q)]
MatchedRaws == {jpeg_to_raw[j].v : j \in DOMAIN jpeg_to_raw}

\* the discovered JPEGs whose RAW file was found and put in files_with_xmp
SurvivingJpegs ==
    {j \in Range(jpeg_files) :
        j \in DictKeys(jpeg_to_raw) /\ DictGet(jpeg_to_raw, j) \in Range(files_with_xmp)}

\* C1: on a successful return the keys of the result are exactly the RAW
\* files the matcher returned for some discovered JPEG that step 4 put in
\* the with-sidecar list, and each value is the keyword list the requester
\* returned for a JPEG matched to that RAW file.
C1_ResultIsMatchedWithSidecar ==
    pc = "done" =>
        /\ DictKeys(result) = MatchedRaws \cap Range(files_with_xmp)
        /\ \A j \in DOMAIN result :
              \E q \in Range(requests) :
                 /\ q.exc = ""
                 /\ q.keywords = result[j].v
                 /\ q.image \in Range(jpeg_files)
                 /\ q.image \in DictKeys(jpeg_to_raw)
                 /\ DictGet(jpeg_to_raw, q.image) = result[j].k

C1_Witness ==
    /\ pc = "done"
    /\ Len(result) = 1
    /\ result[1].v # <<>>
    /\ missing_raw_files # <<>>

\* C2: on a successful return every key of the result had a sidecar when
\* the batch writer of step 6 handled its entry (no key is returned whose
\* entry the writer skipped for lack of a sidecar), also when the
\* filesystem changes between the check of step 4 and the write of step 6.
C2_KeysHadSidecarWhenWritten ==
    pc = "done" => DictKeys(result) \subseteq Range(b_files_with_xmp)

\* C3 as stated: on success the number of keyword requests equals the
\* number of entries of the returned mapping (one request per matched RAW
\* file), also when several JPEGs share a stem.
C3_OneRequestPerResultEntry ==
    pc = "done" => Len(requests) = Len(result)

\* C3 amended: the requester is called exactly once per discovered JPEG
\* that survived matching and sidecar verification (in order, never twice
\* for one JPEG, never for an excluded JPEG); on success every surviving
\* JPEG was requested, and the requests are at least as many as the entries
\* of the result, as many exactly when no two surviving JPEGs were matched
\* to the same RAW file.
C3_OneRequestPerSurvivingJpeg ==
    /\ \A j \in DOMAIN requests : requests[j].image \in SurvivingJpegs
    /\ \A j, k \in DOMAIN requests : requests[j].image = requests[k].image => j = k
    /\ pc = "done" =>
          /\ {requests[j].image : j \in DOMAIN requests} = SurvivingJpegs
          /\ Len(result) <= Len(requests)
          /\ (Len(result) = Len(requests)) <=>
                (\A x, y \in SurvivingJpegs :
                    DictGet(jpeg_to_raw, x) = DictGet(jpeg_to_raw, y) => x = y)

C3_Witness ==
    /\ pc = "done"
    /\ Len(requests) = 2
    /\ Len(result) = 1
    /\ stem(requests[1].image) = stem(requests[2].image)

\* nothing of the later stages has happened
NothingBeyondValidation ==
    /\ stages = <<"validate">>
    /\ jpeg_files = <<>>
    /\ jpeg_to_raw = <<>>
    /\ missing_raw_files = <<>>
    /\ requests = <<>>
    /\ execLog = <<>>
    /\ result = NoResult

FirstMissingInput ==
    IF jpegDirKind = "missing" THEN "JPEG directory not found"
    ELSE IF ~rawRootExists THEN "RAW search path not found"
    ELSE IF ~taxonomyExists THEN "Taxonomy file not found"
    ELSE ""

\* C4 as stated: when an input does not exist the run fails with
\* FileNotFoundError naming the first missing input in the order JPEG
\* directory, RAW search root, taxonomy file, and does nothing else.
C4_FirstMissingInputNamed ==
    (pc # "validate" /\ FirstMissingInput # "") =>
        /\ pc = "failed"
        /\ error = Err("FileNotFoundError", FirstMissingInput)
        /\ NothingBeyondValidation

\* C4 amended: as stated, except that a JPEG path that exists but is not a
\* directory fails with NotADirectoryError before the RAW search root and
\* the taxonomy file are looked at (also when those are missing).
C4_FirstBadInputNamed ==
    (pc # "validate" /\ (FirstMissingInput # "" \/ jpegDirKind = "file")) =>
        /\ pc = "failed"
        /\ error = (IF jpegDirKind = "file"
                    THEN Err("NotADirectoryError", "JPEG path is not a directory")
                    ELSE Err("FileNotFoundError", FirstMissingInput))
        /\ NothingBeyondValidation

C4_Witness ==
    /\ pc = "failed"
    /\ jpegDirKind = "dir"
    /\ ~rawRootExists
    /\ ~taxonomyExists
    /\ error.msg = "RAW search path not found"

\* C5: a stage whose surviving set is empty ends the run with PipelineError
\* and the message of that stage, no later stage is entered with an empty
\* set, and after such a failure no keyword request was issued and the
\* metadata writer was not called.
C5_EmptyStageIsFatal ==
    /\ Entered("match") => jpeg_files # <<>>
    /\ Entered("verify") => jpeg_to_raw # <<>>
    /\ Entered("generate") => files_with_xmp # <<>>
    /\ (Entered("discover") /\ pc # "discover" /\ jpeg_files = <<>>) =>
          (pc = "failed" /\ error = Err("PipelineError", "No JPEG files found"))
    /\ (Entered("match") /\ pc # "match" /\ jpeg_to_raw = <<>>) =>
          (pc = "failed"
             /\ error = Err("PipelineError", "No RAW files found for any JPEG files"))
    /\ (Entered("verify") /\ pc # "verify" /\ files_with_xmp = <<>>) =>
          (pc = "failed"
             /\ error = Err("PipelineError", "No files with XMP sidecars found"))
    /\ (pc = "failed" /\ error.type = "PipelineError") =>
          /\ requests = <<>>
          /\ raw_to_keywords = <<>>
          /\ b_files_with_xmp = <<>>
          /\ execLog = <<>>
          /\ result = NoResult
          /\ ~Entered("generate") /\ ~Entered("write_ensure")
          /\ Last(stages) = "discover" => (jpeg_to_raw = <<>> /\ missing_raw_files = <<>>)
          /\ Last(stages) = "match" => (files_with_xmp = <<>> /\ files_without_xmp = <<>>)

C5_Witness ==
    /\ pc = "failed"
    /\ error = Err("PipelineError", "No files with XMP sidecars found")
    /\ Len(files_without_xmp) = 1
    /\ missing_raw_files = <<>>

\* C6, in every state: a failed keyword request is the last request made,
\* process_directory has raised that same failure, nothing was returned or
\* written, and no JPEG was requested twice.
C6_FailedRequestIsLast ==
    /\ \A j \in DOMAIN requests :
          requests[j].exc # "" =>
             /\ pc = "failed"
             /\ error.type = requests[j].exc
             /\ j = Len(requests)
             /\ result = NoResult
             /\ execLog = <<>>
             /\ ~Entered("write_ensure")
    /\ \A j, k \in DOMAIN requests : requests[j].image = requests[k].image => j = k
    /\ (pc = "failed" /\ error.msg = "generate_keywords") =>
          (requests # <<>> /\ Last(requests).exc = error.type)

\* C6: a failure of the keyword requester is not caught: process_directory
\* raises it, requests nothing more (no later asset, no retry) and returns
\* no mapping.
C6_RequesterFailureAborts ==
    /\ []C6_FailedRequestIsLast
    /\ [][pc = "failed" => (pc' = "failed" /\ requests' = requests /\ result' = result
                              /\ execLog' = execLog)]_vars

C6_Witness ==
    /\ pc = "failed"
    /\ error.msg = "generate_keywords"
    /\ Len(requests) = 1
    /\ Len(jpeg_to_raw_with_xmp) = 2

MatchReported ==
    Entered("verify")
      \/ (pc = "failed" /\ error.msg = "No RAW files found for any JPEG files")
VerifyReported ==
    Entered("generate")
      \/ (pc = "failed" /\ error.msg = "No files with XMP sidecars found")
WarnedJpeg(j) == \E w \in warnings : w.kind = "missing_raw" /\ w.name = j.name
WarnedRaw(r) ==
    \E w \in warnings :
       w.kind = "missing_xmp" /\ w.name = r.name /\ w.expected = get_xmp_path(r)

\* C7: once matching has ended (also with the failure for an empty set)
\* every discovered JPEG without a RAW file is named in a missing-RAW
\* warning; once verification has ended (also with the failure) every RAW
\* file of the without-sidecar list is named in a missing-sidecar warning
\* with its expected sidecar path; on success every discovered JPEG is
\* represented by a key of the result or named, itself or its RAW file, in
\* a warning.
C7_ExcludedFilesAreWarned ==
    /\ MatchReported =>
          \A j \in Range(jpeg_files) : j \notin DictKeys(jpeg_to_raw) => WarnedJpeg(j)
    /\ VerifyReported => \A r \in Range(files_without_xmp) : WarnedRaw(r)
    /\ pc = "done" =>
          \A j \in Range(jpeg_files) :
             \/ WarnedJpeg(j)
             \/ /\ j \in DictKeys(jpeg_to_raw)
                /\ \/ DictGet(jpeg_to_raw, j) \in DictKeys(result)
                   \/ WarnedRaw(DictGet(jpeg_to_raw, j))

C7_Witness ==
    /\ pc = "failed"
    /\ error.msg = "No files with XMP sidecars found"
    /\ missing_raw_files # <<>>
    /\ files_without_xmp # <<>>
    /\ Cardinality(warnings) = 2

WriteFailed == pc = "failed" /\ error.msg = "add_keywords_to_xmp"

\* the keywords the successful runs of a log have added to sidecar x
RECURSIVE Added(_, _)
Added(log, x) ==
    IF log = <<>> THEN <<>>
    ELSE (IF Head(log).xmp = x /\ Head(log).rc = 0 THEN Head(log).keywords ELSE <<>>)
           \o Added(Tail(log), x)

\* the entries before the one the write loop is at that were to be written
WrittenBefore ==
    SelectSeq(SubSeq(raw_to_keywords, 1, idx - 1),
              LAMBDA e : e.k \in Range(b_files_with_xmp) /\ e.v # <<>>)

\* C19, in every state: a failed exiftool run is the last run and has made
\* step 6 fail; when the writer has failed on an entry, the runs before it
\* are the successful runs of exactly the entries with sidecar and keywords
\* that precede it in the mapping, nothing was returned, and every sidecar
\* holds the keywords of the successful runs on it.
C19_EarlierWritesStand ==
    /\ \A j \in DOMAIN execLog :
          execLog[j].rc # 0 => (j = Len(execLog) /\ WriteFailed)
    /\ \A x \in DOMAIN xmpSubjects : xmpSubjects[x] = Added(execLog, x)
    /\ WriteFailed =>
          LET ok == SelectSeq(execLog, LAMBDA r : r.rc = 0)
          IN  /\ result = NoResult
              /\ idx \in DOMAIN raw_to_keywords
              /\ raw_to_keywords[idx].k \in Range(b_files_with_xmp)
              /\ raw_to_keywords[idx].v # <<>>
              /\ Len(execLog) <= Len(ok) + 1
              /\ Len(ok) = Len(WrittenBefore)
              /\ \A j \in DOMAIN ok :
                    /\ ok[j].xmp = get_xmp_path(WrittenBefore[j].k)
                    /\ ok[j].keywords = WrittenBefore[j].v

\* C19: batch_add_keywords is not atomic, alone or as step 6 of
\* process_directory: a failure of the writer on an entry is raised at
\* once, the sidecars of the entries written before it stay modified (no
\* rollback) and no later entry is attempted.
C19_BatchIsNotAtomic ==
    /\ []C19_EarlierWritesStand
    /\ [][pc = "failed" =>
            /\ pc' = "failed"
            /\ execLog' = execLog
            /\ \A x \in DOMAIN xmpSubjects' : xmpSubjects'[x] = xmpSubjects[x]]_vars

C19_Witness ==
    /\ WriteFailed
    /\ error.type = "CalledProcessError"
    /\ Len(execLog) = 2
    /\ execLog[1].xmp \in DOMAIN xmpSubjects
    /\ xmpSubjects[execLog[1].xmp] # <<>>
    /\ ~(execLog[2].xmp = execLog[1].xmp)

----------------------------------------------------------------------------
(* Claims about file_finder.py, checked under SpecFinder                   *)

EffectiveExts(exts0) == IF exts0 = NoneExt THEN DefaultExtensions ELSE exts0

\* the files under the root named exactly <stem of jpeg><ext>, ext in the list
ExactCandidates(jpeg, exts0) ==
    {f \in rawFiles : \E e \in Range(EffectiveExts(exts0)) : f.name = stem(jpeg) \o <<e>>}

\* C8: find_raw_file on an existing root returns a file under the root named
\* exactly stem + one of the supplied extensions, or None, and None if and
\* only if there is no such file.
C8_ExactMatchOrNone ==
    (f_pc = "single" /\ rawRootExists) =>
        /\ f_out.exc = ""
        /\ (f_out.val = NoPath) <=> (ExactCandidates(f_call.jpeg, f_call.exts) = {})
        /\ f_out.val # NoPath => f_out.val \in ExactCandidates(f_call.jpeg, f_call.exts)

\* C9 as stated: with the root missing, find_raw_file and find_raw_files
\* raise FileNotFoundError for every JPEG path and every list of JPEG paths.
C9_MissingRootAlwaysRaises ==
    (f_pc \in {"single", "batch"} /\ ~rawRootExists) => f_out.exc = "FileNotFoundError"

\* C9 amended: with the root missing, find_raw_file raises FileNotFoundError
\* for every JPEG path and find_raw_files raises it for every non-empty
\* list; for the empty list find_raw_files returns the empty mapping.
C9_MissingRootRaisesUnlessEmptyList ==
    ~rawRootExists =>
        /\ f_pc = "single" => f_out.exc = "FileNotFoundError"
        /\ (f_pc = "batch" /\ f_call.list # <<>>) => f_out.exc = "FileNotFoundError"
        /\ (f_pc = "batch" /\ f_call.list = <<>>) => (f_out.exc = "" /\ f_out.map = <<>>)

C9_Witness ==
    /\ ~rawRootExists
    /\ f_pc = "batch"
    /\ Len(f_call.list) = MaxList
    /\ f_out.exc = "FileNotFoundError"

\* what find_raw_file can return for one input of the batch call
SingleValues(jpeg) ==
    {o.val : o \in find_raw_file(jpeg, rawRootExists, rawFiles, f_call.exts)}

\* C10 as stated: on an existing root find_raw_files returns as many
\* entries as the list has elements, one per input, each valued as
\* find_raw_file values it.
C10_OneEntryPerElement ==
    (f_pc = "batch" /\ rawRootExists) =>
        /\ f_out.exc = ""
        /\ Len(f_out.map) = Len(f_call.list)
        /\ DictKeys(f_out.map) = Range(f_call.list)
        /\ \A i \in DOMAIN f_out.map : f_out.map[i].v \in SingleValues(f_out.map[i].k)

\* C10 amended: on an existing root find_raw_files returns one entry per
\* distinct path of the list (as many entries as distinct paths), no input
\* is dropped, None marks an unmatched input, each value is one
\* find_raw_file returns for that input, and the empty list gives the empty
\* mapping.
C10_OneEntryPerDistinctPath ==
    (f_pc = "batch" /\ rawRootExists) =>
        /\ f_out.exc = ""
        /\ Len(f_out.map) = Cardinality(Range(f_call.list))
        /\ DictKeys(f_out.map) = Range(f_call.list)
        /\ \A i \in DOMAIN f_out.map : f_out.map[i].v \in SingleValues(f_out.map[i].k)
        /\ f_call.list = <<>> => f_out.map = <<>>

C10_Witness ==
    /\ f_pc = "batch"
    /\ rawRootExists
    /\ f_out.exc = ""
    /\ Len(f_out.map) = 2
    /\ f_out.map[1].v = NoPath
    /\ f_out.map[2].v # NoPath

----------------------------------------------------------------------------
(* Claims about get_xmp_path, checked under SpecXmpPath                    *)

Called(fn) == t_call.fn = fn /\ t_pc \in {"returned", "raised"}

C11_SidecarPathDerived ==
    Called("get_xmp_path") =>
        LET raw == t_call.path
            xmp == t_out.val
        IN  /\ t_pc = "returned"
            /\ xmp = Path(raw.dir, stem(raw) \o <<".xmp">>)
            /\ xmp.dir = raw.dir
            /\ stem(xmp) = stem(raw)
            /\ suffix(xmp) = <<".xmp">>
            /\ \A other \in XmpPathInputs :
                  (other.dir = raw.dir /\ stem(other) = stem(raw)) =>
                      get_xmp_path(other) = xmp
            /\ get_xmp_path(xmp) = xmp
            /\ t_cmds = <<>>

\* C11: get_xmp_path returns raw.parent / (raw.stem + ".xmp") for every RAW
\* path: same parent directory, same stem, the same result for every
\* extension and letter case of the extension, itself when applied to its
\* own result; it returns on every filesystem and changes no file.
C11_SidecarPathIsPure ==
    /\ []C11_SidecarPathDerived
    /\ [][UNCHANGED fsVars]_vars

C11_Witness ==
    /\ Called("get_xmp_path")
    /\ t_call.path = Path("sub", <<"a", ".", "b", ".ARW">>)
    /\ t_out.val = Path("sub", <<"a", ".", "b", ".xmp">>)
    /\ t_out.val \notin xmpFiles
    /\ t_calls = 2

----------------------------------------------------------------------------
(* Claims about the writers of xmp_tagger.py, checked under SpecTagger and  *)
(* SpecBatch                                                               *)

\* C12, in every state: after add_keywords_to_xmp with no keyword on an
\* existing sidecar the call has returned, no process was run and every
\* sidecar holds what it held before the call.
C12_EmptyKeywordsDidNothing ==
    (Called("add_keywords_to_xmp") /\ t_call.keywords = <<>> /\ t_call.path \in xmpFiles) =>
        /\ t_pc = "returned"
        /\ t_out.exc = ""
        /\ t_cmds = <<>>
        /\ xmpSubjects = t_before

\* C12: add_keywords_to_xmp with an empty keyword sequence on an existing
\* sidecar runs no external process, leaves the sidecar (and every other
\* file) as it was and returns; so does every repetition of the call.
C12_EmptyKeywordsIsNoOp ==
    /\ []C12_EmptyKeywordsDidNothing
    /\ [][(t_calls' # t_calls /\ t_call'.fn = "add_keywords_to_xmp"
             /\ t_call'.keywords = <<>> /\ t_call'.path \in xmpFiles)
           => (UNCHANGED fsVars /\ t_pc' = "returned" /\ t_cmds' = <<>>)]_vars

C12_Witness ==
    /\ Called("add_keywords_to_xmp")
    /\ t_calls = 2
    /\ t_call.keywords = <<>>
    /\ t_call.path \in xmpFiles
    /\ xmpSubjects[t_call.path] # <<>>
    /\ t_pc = "returned"

\* C13: add_keywords_to_xmp on a sidecar path that does not exist raises
\* FileNotFoundError naming that path and runs no external process,
\* whatever the keywords are (also when there are none).
C13_MissingSidecarRaises ==
    (Called("add_keywords_to_xmp") /\ t_call.path \notin xmpFiles) =>
        /\ t_pc = "raised"
        /\ t_out.exc = "FileNotFoundError"
        /\ t_out.named = t_call.path
        /\ t_cmds = <<>>
        /\ xmpSubjects = t_before

C13_Witness ==
    /\ Called("add_keywords_to_xmp")
    /\ t_call.path \notin xmpFiles
    /\ t_call.keywords = <<>>
    /\ t_out.exc = "FileNotFoundError"

\* C14: for an existing sidecar and keywords k1..kn, n > 0,
\* add_keywords_to_xmp runs the external process exactly once, with the
\* arguments exiftool_path, -overwrite_original, then n arguments
\* -XMP-dc:Subject+=ki in the order of the keywords, each holding one
\* keyword unchanged, then the sidecar path.
C14_OneArgumentPerKeyword ==
    (Called("add_keywords_to_xmp") /\ t_call.path \in xmpFiles /\ t_call.keywords # <<>>) =>
        /\ Len(t_cmds) = 1
        /\ LET cmd == t_cmds[1].cmd
               n == Len(t_call.keywords)
           IN  /\ Len(cmd) = n + 3
               /\ cmd[1] = t_call.exiftool
               /\ cmd[2] = <<"-overwrite_original">>
               /\ \A j \in 1..n :
                     /\ Head(cmd[2 + j]) = "-XMP-dc:Subject+="
                     /\ Tail(cmd[2 + j]) = t_call.keywords[j]
               /\ cmd[n + 3] = <<t_call.path.dir, "/">> \o t_call.path.name

C14_Witness ==
    /\ Called("add_keywords_to_xmp")
    /\ t_call.keywords = << <<"x">>, <<"y">> >>
    /\ t_call.exiftool = <<"/opt/", "exiftool">>
    /\ Len(t_cmds) = 1
    /\ Len(t_cmds[1].cmd) = 5

\* the call has ended and the last process it ran failed
LastRunFailed == t_cmds # <<>> /\ t_cmds[Len(t_cmds)].rc # 0

\* C15: when exiftool exits with a code other than 0, add_keywords_to_xmp,
\* add_keywords_to_raw and batch_add_keywords raise CalledProcessError
\* with that exit code and the captured output; the failed run is the last
\* one (nothing is retried or run after it); when every run exits with 0
\* add_keywords_to_xmp and add_keywords_to_raw return.
C15_ToolFailurePropagates ==
    /\ \A j \in DOMAIN t_cmds : t_cmds[j].rc # 0 => j = Len(t_cmds)
    /\ LastRunFailed =>
          /\ t_pc = "raised"
          /\ t_out.exc = "CalledProcessError"
          /\ t_out.returncode = t_cmds[Len(t_cmds)].rc
          /\ \E r \in ExiftoolResults : r.rc = t_out.returncode /\ r.out = t_out.output
    /\ t_out.exc = "CalledProcessError" => LastRunFailed
    /\ (t_cmds # <<>> /\ ~LastRunFailed
          /\ (Called("add_keywords_to_xmp") \/ Called("add_keywords_to_raw"))) =>
          (t_pc = "returned" /\ t_out.exc = "")

C15_Witness ==
    /\ Called("batch_add_keywords")
    /\ t_out.exc = "CalledProcessError"
    /\ t_out.returncode = 2
    /\ Len(t_cmds) = 2

\* C16: add_keywords_to_raw raises FileNotFoundError naming the RAW file
\* when the RAW file does not exist (also when its sidecar exists),
\* otherwise XMPSidecarError when the sidecar does not exist, running no
\* process in either case; otherwise it calls add_keywords_to_xmp on
\* get_xmp_path(raw_file).
C16_RawThenSidecarThenWrite ==
    Called("add_keywords_to_raw") =>
        LET raw == t_call.path
            xmp == get_xmp_path(raw)
        IN  IF raw \notin rawFiles
            THEN /\ t_out.exc = "FileNotFoundError"
                 /\ t_out.named = raw
                 /\ t_cmds = <<>>
                 /\ xmpSubjects = t_before
            ELSE IF xmp \notin xmpFiles
            THEN /\ t_out.exc = "XMPSidecarError"
                 /\ t_cmds = <<>>
                 /\ xmpSubjects = t_before
            ELSE /\ t_out.exc \in {"", "CalledProcessError"}
                 /\ (t_cmds = <<>>) <=> (t_call.keywords = <<>>)
                 /\ Len(t_cmds) <= 1
                 /\ \A j \in DOMAIN t_cmds :
                       t_cmds[j].cmd = exiftool_cmd(t_call.exiftool, t_call.keywords, xmp)

C16_Witness ==
    /\ Called("add_keywords_to_raw")
    /\ t_call.path \notin rawFiles
    /\ get_xmp_path(t_call.path) \in xmpFiles
    /\ t_call.keywords # <<>>
    /\ t_out.exc = "FileNotFoundError"

AbsentKeys == {key \in DictKeys(t_call.mapping) : key \notin rawFiles}

\* C17: when a RAW file of the mapping does not exist, wherever it stands
\* in the mapping, batch_add_keywords raises FileNotFoundError naming an
\* absent RAW file and has run no external process.
C17_AbsentRawMeansNoWrite ==
    (t_call.fn = "batch_add_keywords" /\ AbsentKeys # {}) =>
        /\ t_pc = "raised"
        /\ t_out.exc = "FileNotFoundError"
        /\ t_out.named \in AbsentKeys
        /\ t_cmds = <<>>
        /\ xmpSubjects = t_before

C17_Witness ==
    /\ t_call.fn = "batch_add_keywords"
    /\ Len(t_call.mapping) = 2
    /\ t_call.mapping[1].k \in rawFiles
    /\ get_xmp_path(t_call.mapping[1].k) \in xmpFiles
    /\ t_call.mapping[1].v # <<>>
    /\ t_call.mapping[2].k \notin rawFiles
    /\ t_pc = "raised"

\* the entries of the mapping that have a sidecar and keywords
Writable == SelectSeq(t_call.mapping,
                      LAMBDA e : get_xmp_path(e.k) \in xmpFiles /\ e.v # <<>>)

\* C18: when every RAW file of the mapping exists and exiftool succeeds,
\* batch_add_keywords returns having run the external process once for
\* each entry that has a sidecar and keywords, in the order of the mapping,
\* on the sidecar and with the keywords of the entry, and for no other
\* entry; for the empty mapping it runs nothing.
C18_OneWritePerWritableEntry ==
    (t_call.fn = "batch_add_keywords" /\ AbsentKeys = {}) =>
        /\ t_pc = "raised" => LastRunFailed
        /\ Len(t_cmds) <= Len(Writable)
        /\ \A j \in DOMAIN t_cmds :
              t_cmds[j].cmd = exiftool_cmd(t_call.exiftool, Writable[j].v,
                                           get_xmp_path(Writable[j].k))
        /\ t_pc = "returned" =>
              /\ Len(t_cmds) = Len(Writable)
              /\ \A j \in DOMAIN t_cmds : t_cmds[j].rc = 0
        /\ t_call.mapping = <<>> => t_cmds = <<>>

C18_Witness ==
    /\ Called("batch_add_keywords")
    /\ t_pc = "returned"
    /\ Len(t_call.mapping) = 2
    /\ get_xmp_path(t_call.mapping[1].k) \notin xmpFiles
    /\ t_call.mapping[1].v # <<>>
    /\ Len(t_cmds) = 1

----------------------------------------------------------------------------
(* Claims about generate_keywords, checked under SpecGenerate              *)

NoCredential == resolve_api_key(g_call.api_key, environ) \in {None, ""}

\* no client has been created and nothing was requested or received
NothingRequested ==
    /\ g_client = None
    /\ mime_type = ""
    /\ g_chunks = <<>>
    /\ response_text = <<>>

\* C20: generate_keywords checks the image path, then the taxonomy path,
\* then the credential, and raises for the first that fails:
\* FileNotFoundError "Image file not found" (also when the taxonomy is
\* missing too), FileNotFoundError "Taxonomy file not found", ValueError;
\* in each case no client is created and no request is issued.
C20_ValidationOrder ==
    /\ (g_pc # "validate" /\ ~imageExists) =>
          /\ g_pc = "raised"
          /\ g_out = GenErr("FileNotFoundError", "Image file not found")
          /\ NothingRequested
    /\ (g_pc # "validate" /\ imageExists /\ ~taxonomyExists) =>
          /\ g_pc = "raised"
          /\ g_out = GenErr("FileNotFoundError", "Taxonomy file not found")
          /\ NothingRequested
    /\ (g_pc # "validate" /\ imageExists /\ taxonomyExists /\ NoCredential) =>
          /\ g_pc = "raised"
          /\ g_out = GenErr("ValueError", "API key must be provided")
          /\ NothingRequested
    /\ g_client # None => (imageExists /\ taxonomyExists /\ ~NoCredential)

C20_Witness ==
    /\ g_pc = "raised"
    /\ ~imageExists
    /\ ~taxonomyExists
    /\ NoCredential
    /\ g_out.msg = "Image file not found"

\* a credential counts as supplied, or as discoverable, when it is neither
\* None nor the empty string
Supplied == g_call.api_key \notin {None, ""}
Discoverable == environ \notin {None, ""}
MissingCredentialRaised ==
    g_pc = "raised" /\ g_out = GenErr("ValueError", "API key must be provided")

\* C21: the client receives the explicitly supplied credential, otherwise
\* the value of GEMINI_API_KEY; and, the two paths existing, the call fails
\* with the missing-credential ValueError if and only if no credential is
\* supplied explicitly (None or empty) and none is discoverable from the
\* environment variable.
C21_CredentialResolution ==
    /\ g_client # None =>
          g_client = IF Supplied THEN g_call.api_key ELSE environ
    /\ (g_pc # "validate" /\ imageExists /\ taxonomyExists) =>
          (MissingCredentialRaised <=> (~Supplied /\ ~Discoverable))

\* the call of C21 that diverges: an empty explicit credential while the
\* environment variable holds one
C21_EmptyExplicitKeyRaises ==
    /\ g_call.api_key = ""
    /\ environ = "envkey"
    /\ imageExists /\ taxonomyExists
    /\ MissingCredentialRaised

\* the texts of the fragments, in arrival order, put end to end; a
\* fragment without text contributes nothing
RECURSIVE ConcatText(_)
ConcatText(chunks) ==
    IF chunks = <<>> THEN <<>>
    ELSE ConcatText(SubSeq(chunks, 1, Len(chunks) - 1))
            \o (IF chunks[Len(chunks)] = NoText THEN <<>> ELSE chunks[Len(chunks)])

\* the "keywords" field of the document, the empty list when it has none
KeywordsField(text) ==
    IF text = <<"{", "}">> THEN <<>>
    ELSE [j \in 1..((Len(text) - 5) \div 2) |-> unquote(text[3 + 2 * j])]

\* C22: the text that is parsed is the concatenation, in arrival order, of
\* the fragments' texts, whatever the fragment boundaries and whatever
\* fragments have empty or absent text; the list returned is the "keywords"
\* field of that document, or the empty list when it has no such field.
C22_ResultDependsOnConcatenation ==
    /\ response_text = ConcatText(g_chunks)
    /\ g_pc = "returned" =>
          /\ g_out.exc = ""
          /\ g_out.val = KeywordsField(ConcatText(g_chunks))

C22_Witness ==
    /\ g_pc = "returned"
    /\ Len(g_chunks) = 3
    /\ g_chunks[2] \in {NoText, <<>>}
    /\ g_out.val = <<"landscape">>

\* the scenario of three fragments with both keywords
C22_ThreeFragments ==
    /\ g_pc = "returned"
    /\ g_chunks = << <<"{", "\"keywords\"", ":", "[", K1>>, <<",", K2>>, <<"]", "}">> >>
    /\ g_out.val = <<"landscape", "sunset">>

\* the stream was consumed to its end and the text handed to the parser
Parsed ==
    /\ g_pc \in {"returned", "raised"}
    /\ g_client # None
    /\ g_out.exc # "APIError"

\* C23: whenever the concatenated text is not a JSON object exposing a
\* keyword list (non-JSON text, an empty response, JSON that is not an
\* object) generate_keywords raises ValueError "Failed to parse Gemini
\* response as JSON" carrying the raw concatenated text, and returns nothing.
C23_MalformedRaisesValueError ==
    (Parsed /\ ~IsObject(ConcatText(g_chunks))) =>
        /\ g_pc = "raised"
        /\ g_out.exc = "ValueError"
        /\ g_out.msg = "Failed to parse Gemini response as JSON"
        /\ g_out.text = ConcatText(g_chunks)

\* the response of C23 that diverges: a JSON array at the top level
C23_ArrayRaisesAttributeError ==
    /\ Parsed
    /\ ConcatText(g_chunks) = <<"[", K1, "]">>
    /\ g_pc = "raised"
    /\ g_out.exc = "AttributeError"

\* the cases of C23 the code does handle: non-JSON text, an empty response
C23_NonJsonRaisesValueError ==
    /\ Parsed
    /\ ConcatText(g_chunks) \in {<<"oops">>, <<>>}
    /\ g_out.exc = "ValueError"
    /\ g_out.text = ConcatText(g_chunks)

----------------------------------------------------------------------------
(* Claims about the command-line entry point, checked under SpecCli        *)

\* a positional path does not exist or has the wrong kind
BadPositional == jpegDirKind # "dir" \/ ~rawRootExists \/ ~taxonomyExists
\* no credential on the command line and none in the environment
NoCliCredential == click_option(argv.api_key, environ) \in {None, ""}
Exited == c_pc = "exited"
PipelineStarted == pc # "idle"

\* what C24 says of every outcome but a bad positional path
ExitCodesOfMain ==
    /\ exit_code = <<0>> <=> (Exited /\ pc = "done")
    /\ (Exited /\ ~BadPositional /\ NoCliCredential) =>
          /\ exit_code = <<1>>
          /\ stderr = <<CliLine("Error: API key not provided", "")>>
          /\ ~PipelineStarted
    /\ (Exited /\ pc = "failed") =>
          /\ exit_code = <<1>>
          /\ stderr = <<CliLine(IF error.type = "PipelineError" THEN "Pipeline error"
                                ELSE IF error.type = "FileNotFoundError"
                                THEN "File not found"
                                ELSE "Unexpected error", error.msg)>>
    /\ PipelineStarted => (~BadPositional /\ ~NoCliCredential)
    /\ (Exited /\ exit_code # <<0>>) => stderr # <<>>
    /\ exit_code \in {NoExit, <<0>>, <<1>>, <<2>>}

\* C24 as stated: exit code 0 exactly when the pipeline returns, exit code 1
\* with the message on the error stream on every failure: a bad positional
\* path, a missing credential (before the pipeline starts), PipelineError,
\* FileNotFoundError, any other exception of the pipeline.
C24_ExitOneOnEveryFailure ==
    /\ ExitCodesOfMain
    /\ (Exited /\ BadPositional) =>
          (exit_code = <<1>> /\ stderr # <<>> /\ ~PipelineStarted)

\* C24: exit code 0 exactly when the pipeline returns; exit code 1 with the
\* message on the error stream for a missing credential (before the pipeline
\* starts) and for PipelineError, FileNotFoundError and any other exception
\* of the pipeline; a positional path that does not exist or has the wrong
\* kind is reported by the argument parser as a usage error on the error
\* stream with exit code 2, before main runs.
C24_ExitCodes ==
    /\ ExitCodesOfMain
    /\ (Exited /\ BadPositional) =>
          /\ exit_code = <<2>>
          /\ Len(stderr) = 1 /\ stderr[1].line = UsageLine
          /\ ~PipelineStarted
    /\ exit_code = <<2>> => BadPositional

\* a run that ends with the handler of unexpected exceptions
C24_Witness ==
    /\ Exited
    /\ pc = "failed"
    /\ error.type \notin {"PipelineError", "FileNotFoundError"}
    /\ exit_code = <<1>>

C24_WitnessUsageError ==
    /\ Exited
    /\ jpegDirKind = "file"
    /\ exit_code = <<2>>

C24_WitnessSuccess ==
    /\ Exited
    /\ exit_code = <<0>>
    /\ execLog # <<>>

C24_WitnessNoCredential ==
    /\ Exited
    /\ argv.api_key = ""
    /\ environ = "envkey"
    /\ exit_code = <<1>>

C24_WitnessFileNotFound ==
    /\ Exited
    /\ pc = "failed"
    /\ error.type = "FileNotFoundError"
    /\ stderr[1].line = "File not found"

----------------------------------------------------------------------------
(* Claims about the course of process_directory, checked under Spec        *)

NoRepeats(q) == \A j, k \in DOMAIN q : q[j] = q[k] => j = k

\* the six stages; "write_ensure" is the entry of the write stage
StageOrder == <<"validate", "discover", "match", "verify", "generate", "write_ensure">>
Rank(p) ==
    CASE p = "validate" -> 1 [] p = "discover" -> 2 [] p = "match" -> 3
      [] p = "verify" -> 4 [] p = "generate" -> 5
      [] p \in {"write_ensure", "write"} -> 6
      [] OTHER -> 7
Ended == pc \in {"done", "failed"}

\* the stage before the one entered has dealt with the whole batch
PreviousStageComplete ==
    /\ Entered("match") =>
          /\ Range(jpeg_files) =
                UNION {dir_glob(jpegDirFiles, JpegPatterns[k]) : k \in DOMAIN JpegPatterns}
          /\ NoRepeats(jpeg_files)
    /\ Entered("verify") =>
          Range(jpeg_files) = DictKeys(jpeg_to_raw) \cup Range(missing_raw_files)
    /\ Entered("generate") =>
          Range(raw_files) = Range(files_with_xmp) \cup Range(files_without_xmp)
    /\ Entered("write_ensure") =>
          /\ Len(requests) = Len(jpeg_to_raw_with_xmp)
          /\ \A j \in DOMAIN requests : requests[j].exc = ""

\* C25: a run passes through validate, discover, match, verify, generate,
\* write in this order: a stage starts only when the previous one is done
\* with the whole batch, no stage is entered twice or after a later one, a
\* failure ends the run for good, and every step makes at most one
\* external call (inference request or exiftool process).
C25_StagesInFixedOrder ==
    /\ [](/\ stages = SubSeq(StageOrder, 1, Len(stages))
          /\ ~Ended => Last(stages) = StageOrder[Rank(pc)])
    /\ [][/\ stages' # stages => PreviousStageComplete'
          /\ pc' # pc =>
                /\ Rank(pc') = Rank(pc) + 1 \/ pc' \in {"write", "done", "failed"}
                /\ Rank(pc') >= Rank(pc)
          /\ Ended => (pc' = pc /\ stages' = stages /\ requests' = requests
                       /\ execLog' = execLog)
          /\ pc' = "failed" => stages' = stages
          /\ Len(requests') + Len(execLog') <= Len(requests) + Len(execLog) + 1
       ]_vars

C25_Witness ==
    /\ pc = "done"
    /\ stages = StageOrder
    /\ Len(requests) = 2
    /\ Len(execLog) = 2

C25_WitnessFailure ==
    /\ pc = "failed"
    /\ stages = SubSeq(StageOrder, 1, 5)
    /\ requests # <<>>
    /\ Last(requests).exc # ""

----------------------------------------------------------------------------
(* Claims about ensure_xmp_sidecars, checked under SpecEnsure              *)

\* a can be got from b by leaving elements out
RECURSIVE IsSubsequence(_, _)
IsSubsequence(a, b) ==
    IF a = <<>> THEN TRUE
    ELSE IF b = <<>> THEN FALSE
    ELSE IF Head(a) = Head(b) THEN IsSubsequence(Tail(a), Tail(b))
    ELSE IsSubsequence(a, Tail(b))

EnsureEnded == Called("ensure_xmp_sidecars") /\ t_pc = "returned"

C26_WitnessNoCaching ==
    /\ EnsureEnded
    /\ Len(t_call.list) = 2
    /\ t_call.list[1] = t_call.list[2]
    /\ t_with = <<t_call.list[1]>>
    /\ t_without = <<t_call.list[1]>>

----------------------------------------------------------------------------
(* Claims about the writes of process_directory, checked under Spec        *)

\* no exiftool run was made and every sidecar on disk has the content it
\* had before the run
SidecarsUntouched ==
    /\ execLog = <<>>
    /\ \A x \in xmpFiles : xmpSubjects[x] = <<>>

\* steps 1-5 are done: every stage was entered and every surviving asset
\* has its keyword list
StepsOneToFiveDone ==
    /\ stages = StageOrder
    /\ PreviousStageComplete
    /\ DictKeys(raw_to_keywords) = {e.v : e \in Range(jpeg_to_raw_with_xmp)}

\* C27: exiftool is not run and no sidecar is modified unless validation,
\* discovery, matching, sidecar verification and the keyword request of
\* every surviving asset have completed successfully; a failure in steps
\* 1-5, an inference failure on the last asset included, leaves every
\* sidecar as it was.
C27_NoWriteBeforeStepSix ==
    /\ [](~SidecarsUntouched => stages = StageOrder)
    /\ []((pc = "failed" /\ stages # StageOrder) => SidecarsUntouched)
    /\ [][(execLog' # execLog \/ (SidecarsUntouched /\ ~SidecarsUntouched')) =>
             (pc \in {"write", "done", "failed"} /\ StepsOneToFiveDone)]_vars

\* the inference request of the last of two assets fails
C27_Witness ==
    /\ pc = "failed"
    /\ Len(jpeg_to_raw_with_xmp) = 2
    /\ Len(requests) = 2
    /\ requests[1].exc = "" /\ requests[1].keywords # <<>>
    /\ requests[2].exc # ""
    /\ xmpFiles # {}
    /\ SidecarsUntouched

\* a run that does write
C27_WitnessWritten ==
    /\ pc = "done"
    /\ ~SidecarsUntouched

----------------------------------------------------------------------------
(* Claims about the order of the extensions, checked under SpecFinder      *)

\* the files the search pattern of the call's JPEG and extension e matches
PatternMatches(e) == glob(rawFiles, stem(f_call.jpeg) \o <<e>>)
\* the files named exactly <stem of the JPEG><e>
SameStem(e) == {f \in rawFiles : f.name = stem(f_call.jpeg) \o <<e>>}
CallExts == EffectiveExts(f_call.exts)

\* on an existing root the result is a match of the earliest extension of
\* the list that has any, None when none has
EarliestExtensionWins ==
    (f_pc = "single" /\ rawRootExists) =>
        /\ f_out.exc = ""
        /\ f_out.val # NoPath <=> (\E i \in DOMAIN CallExts : PatternMatches(CallExts[i]) # {})
        /\ f_out.val # NoPath =>
              \E i \in DOMAIN CallExts :
                 /\ f_out.val \in PatternMatches(CallExts[i])
                 /\ suffix(f_out.val) = <<CallExts[i]>>
                 /\ \A k \in 1..(i - 1) :
                       PatternMatches(CallExts[k]) = {} /\ SameStem(CallExts[k]) = {}

\* C28 as stated: the file returned has the earliest extension of the list
\* that has any match, a later extension only when no file of an earlier one
\* exists under the root, and an explicitly empty list always yields None.
C28_EmptyListAlwaysNone ==
    /\ EarliestExtensionWins
    /\ (f_pc = "single" /\ f_call.exts = <<>>) =>
          (f_out.exc = "" /\ f_out.val = NoPath)

\* C28 amended: as above on an existing root, where an explicitly empty
\* list yields None; on a missing root find_raw_file raises
\* FileNotFoundError, with the empty list too.
C28_EarliestExtensionOrNone ==
    /\ EarliestExtensionWins
    /\ (f_pc = "single" /\ f_call.exts = <<>> /\ rawRootExists) =>
          (f_out.exc = "" /\ f_out.val = NoPath)
    /\ (f_pc = "single" /\ ~rawRootExists) => f_out.exc = "FileNotFoundError"

\* the same stem under two extensions of the default list, in different
\* directories: the earlier extension is returned
C28_Witness ==
    /\ f_pc = "single"
    /\ f_call.exts = NoneExt
    /\ SameStem(".dng") # {}
    /\ SameStem(".ARW") # {}
    /\ f_out.val \in SameStem(".dng")

C28_WitnessExplicitList ==
    /\ f_pc = "single"
    /\ f_call.exts = <<".ARW", ".arw">>
    /\ SameStem(".arw") # {}
    /\ SameStem(".ARW") # {}
    /\ f_out.val \in SameStem(".ARW")

C28_WitnessEmptyList ==
    /\ f_pc = "single"
    /\ f_call.exts = <<>>
    /\ rawFiles # {}
    /\ f_out.val = NoPath
    /\ f_out.exc = ""

\* the empty list on a missing root
C28_WitnessEmptyListMissingRoot ==
    /\ f_pc = "single"
    /\ f_call.exts = <<>>
    /\ ~rawRootExists
    /\ f_out.exc = "FileNotFoundError"

\* the keys of the mapping process_directory hands to batch_add_keywords
WriterKeys == [j \in DOMAIN raw_to_keywords |-> raw_to_keywords[j].k]

\* C29: in one run no two entries of the mapping handed to the batch
\* writer derive the same sidecar path, and no sidecar is passed to
\* exiftool more than once, whatever JPEGs are discovered and however the
\* RAW files lie under the root.
C29_OneWritePerSidecar ==
    /\ \A j, k \in DOMAIN WriterKeys :
          get_xmp_path(WriterKeys[j]) = get_xmp_path(WriterKeys[k]) => j = k
    /\ \A j, k \in DOMAIN execLog : execLog[j].xmp = execLog[k].xmp => j = k

\* two JPEGs of one stem, two RAW files of that stem in one directory: one
\* entry, one write
C29_Witness ==
    /\ pc = "done"
    /\ Len(jpeg_files) = 2
    /\ \E r1, r2 \in rawFiles :
          r1 # r2 /\ get_xmp_path(r1) = get_xmp_path(r2) /\ get_xmp_path(r1) \in xmpFiles
    /\ Len(raw_to_keywords) = 1
    /\ Len(execLog) = 1

\* two JPEGs of one stem matched to RAW files in different directories:
\* two entries, two sidecars
C29_WitnessTwoDirectories ==
    /\ pc = "done"
    /\ Len(raw_to_keywords) = 2
    /\ stem(WriterKeys[1]) = stem(WriterKeys[2])
    /\ Len(execLog) = 2

\* C30: while another process may delete sidecars at any point,
\* batch_add_keywords never fails because a sidecar is absent: an entry
\* whose sidecar is absent when the entry is handled is skipped silently
\* and the remaining entries are still processed.
C30_AbsentSidecarNeverFails ==
    /\ (Entered("write_ensure") /\ pc = "failed") => error.type # "FileNotFoundError"
    /\ (Entered("write_ensure") /\ pc = "failed") =>
          (execLog # <<>> /\ Last(execLog).rc # 0)

\* the run of C30 that diverges: both sidecars present when the writer
\* checks them, the first entry written, the second sidecar deleted before
\* its turn
C30_DeletedSidecarRaises ==
    /\ WriteFailed
    /\ error.type = "FileNotFoundError"
    /\ Len(raw_to_keywords) = 2
    /\ Len(b_files_with_xmp) = 2
    /\ idx = 2
    /\ Len(execLog) = 1
    /\ get_xmp_path(WriterKeys[2]) \notin xmpFiles

\* the skip the code does make: the sidecar already absent when the writer
\* checks the sidecars
C30_AbsentBeforeCheckIsSkipped ==
    /\ pc = "done"
    /\ Len(raw_to_keywords) = 2
    /\ Len(b_files_with_xmp) = 1
    /\ raw_to_keywords[1].v # <<>> /\ raw_to_keywords[2].v # <<>>
    /\ WriterKeys[1] \notin Range(b_files_with_xmp)
    /\ Len(execLog) = 1

====
